---- MODULE Spec2Model ----
(***************************************************************************)
(* Model of the structural role classification and numbered-list           *)
(* materialization engine (core/numbering.py, agent/mode_router.py,        *)
(* service/format_service.py).                                             *)
(*                                                                         *)
(* Three specifications share the module:                                  *)
(*   SpecNum     convert_text_lists: grouping scan, then materialization   *)
(*   SpecApply   direct calls of apply_numpr on paragraphs                 *)
(*   SpecRouter  label resolution (_resolve_labels / ModeRouter.route)     *)
(*                                                                         *)
(* Text is a sequence of characters; the characters the patterns tell      *)
(* apart that are not ASCII are written with ASCII stand-ins:              *)
(*   "((" full-width left parenthesis   "))" full-width right parenthesis  *)
(*   "c1".."c20" the circled digits     "zh" any other (CJK) character     *)
(***************************************************************************)
EXTENDS Integers, Sequences, FiniteSets, TLC

VARIABLES
    \* ---- the document (numbering.py works on a python-docx Document) ----
    paras,              \* paragraphs in document-flow order
    numbering,          \* children of w:numbering, in XML order
    \* ---- convert_text_lists: arguments and locals ----
    list_item,          \* the list_item section of the formatting config
    min_run_len,
    pc,                 \* position in convert_text_lists / phase of a spec
    scan_i,             \* index of the paragraph the scan loop is at
    current,            \* current: the group being accumulated
    current_fmt,
    current_container,
    groups,
    conv_g,             \* index of the group the conversion loop is at
    converted,
    converted_paras,
    \* ---- direct apply_numpr calls ----
    calls,              \* number of apply_numpr calls made
    last_num_id,        \* per paragraph: num_id of the last apply_numpr call
    \* ---- label resolution ----
    mode,               \* label_mode
    blocks,             \* List[Block]
    rule_labels,        \* block_id -> role (rule_based_labels)
    llm_outcome,        \* what the external classifier will answer
    analyzer_built,     \* ModeRouter._analyzer is not None
    review_calls,       \* number of call_review invocations
    rpc,                \* position in _resolve_labels / route
    result,             \* the label set being built / returned
    source,             \* result["_source"]
    warnings,           \* result["_warnings"]
    trig,               \* trigger_info
    llm_called,         \* result["_hybrid_triggers"]["llm_called"]
    route_exc,          \* the exception that left ModeRouter.route, if any
    raised,             \* an exception escaped _resolve_labels
    \* ---- a direct strip_list_text_prefix call ----
    strip_in,           \* the run texts of the paragraph before the call
    strip_prefix,       \* prefix_char_count
    strip_out,          \* the run texts after the call
    spc,                \* position of the call
    \* ---- _split_body_paragraphs_on_linebreaks, called twice in a row ----
    sdoc,               \* the document's paragraphs, in flow order
    sorig,              \* the paragraphs before the first call
    snapshot,           \* list(iter_all_paragraphs(doc)): paragraph identities
    split_i,            \* index of the snapshot paragraph the loop is at
    created,            \* created (of the running call)
    returned,           \* the values the finished calls returned
    lens,               \* the paragraph count after each finished call
    sppc,               \* position in the splitter
    \* ---- a direct detect_role call ----
    dr_p,               \* the paragraph handed to detect_role
    dr_role,            \* what the call returned
    drpc,               \* position of the call
    \* ---- two documents, each with a pipeline of its own ----
    al_pre,             \* per document: the numbering element at the start
    al_nelem,           \* per document: the numbering element
    al_new_id,          \* per document: new_id of the running call, 0 if none
    al_ids,             \* per document: the ids create_list_num_id returned
    \* ---- LLMClient._execute_chat_completion ----
    rt_attempts,        \* LLM_RETRY_ATTEMPTS
    rt_backoff,         \* LLM_RETRY_BACKOFF_S
    attempt,            \* attempt
    last_error,         \* last_error.error_type
    rt_log,             \* the calls made and the sleeps taken, in order
    rt_result,          \* how the method ended
    rtpc,               \* position in the method
    \* ---- apply_formatting ----
    fdoc,               \* the document's paragraphs, in flow order
    forig,              \* orig_paras: the paragraphs at the start
    flabels,            \* labels: block_id -> role
    label_by_elem,      \* label_by_elem: paragraph -> role
    max_blank_keep,     \* max_keep / max_blank_keep
    role_getter,        \* role_getter of a direct call: paragraph -> role
    report,             \* report (the counts)
    split_from,         \* per paragraph the splitter created: its parent
    fret,               \* the value a direct call returned
    fpc                 \* position in apply_formatting / of a direct call

numVars == <<paras, numbering, list_item, min_run_len, pc, scan_i, current, current_fmt,
             current_container, groups, conv_g, converted, converted_paras>>
applyVars == <<calls, last_num_id>>
routerVars == <<mode, blocks, rule_labels, llm_outcome, analyzer_built,
                review_calls, rpc, result, source, warnings, trig, llm_called,
                route_exc, raised>>
stripVars == <<strip_in, strip_prefix, strip_out, spc>>
splitVars == <<sdoc, sorig, snapshot, split_i, created, returned, lens, sppc>>
roleVars == <<dr_p, dr_role, drpc>>
allocVars == <<al_pre, al_nelem, al_new_id, al_ids>>
retryVars == <<rt_attempts, rt_backoff, attempt, last_error, rt_log, rt_result,
               rtpc>>
fmtVars == <<fdoc, forig, flabels, label_by_elem, max_blank_keep, role_getter,
            report, split_from, fret, fpc>>
moreVars == <<roleVars, allocVars, retryVars, fmtVars>>
auxVars == <<stripVars, splitVars, moreVars>>
vars == <<numVars, applyVars, routerVars, auxVars>>

None == "None"

(***************************************************************************)
(* Characters                                                              *)
(***************************************************************************)
SPACE == " "
TAB == "\t"
FWLPAREN == "(("
FWRPAREN == "))"
RPAREN == ")"
DOT == "."
CJK == "zh"

\* \s of the patterns
NL == "\n"
Whitespace == {SPACE, TAB, NL}

DigitSeq == <<"0", "1", "2", "3", "4", "5", "6", "7", "8", "9">>
LowerSeq == <<"a", "b", "c", "d", "e", "f", "g", "h", "i", "j", "k", "l", "m",
              "n", "o", "p", "q", "r", "s", "t", "u", "v", "w", "x", "y", "z">>
UpperSeq == <<"A", "B", "C", "D", "E", "F", "G", "H", "I", "J", "K", "L", "M",
              "N", "O", "P", "Q", "R", "S", "T", "U", "V", "W", "X", "Y", "Z">>
EnclosedSeq == <<"c1", "c2", "c3", "c4", "c5", "c6", "c7", "c8", "c9", "c10",
                 "c11", "c12", "c13", "c14", "c15", "c16", "c17", "c18", "c19",
                 "c20">>

Range(s) == {s[i] : i \in 1..Len(s)}
IndexOf(s, c) == CHOOSE i \in 1..Len(s) : s[i] = c

DigitChars == Range(DigitSeq)
LowerChars == Range(LowerSeq)
UpperChars == Range(UpperSeq)
EnclosedChars == Range(EnclosedSeq)

\* int() of one digit
DigitVal(c) == IndexOf(DigitSeq, c) - 1

\* _ENCLOSED_ORD.get(ch, 1)
ENCLOSED_ORD(c) == IF c \in EnclosedChars THEN IndexOf(EnclosedSeq, c) ELSE 1

CharAt(t, i) == IF i >= 1 /\ i <= Len(t) THEN t[i] ELSE None

(***************************************************************************)
(* List pattern detection (numbering.py: detect_text_list_prefix)          *)
(***************************************************************************)
LIST_FMTS == {"paren_arabic", "rparen", "num_dot", "enclosed", "alpha_lower",
              "alpha_upper"}
STRUCTURAL_ROLES == {"h1", "h2", "h3", "caption", "abstract", "keyword",
                     "reference", "footer"}
DECIMAL_FMTS == {"paren_arabic", "rparen"}

\* index of the first character at or after i that \s* does not consume
RECURSIVE SkipWs(_, _)
SkipWs(t, i) ==
    IF i <= Len(t) /\ t[i] \in Whitespace THEN SkipWs(t, i + 1) ELSE i

\* index of the first character at or after i that \d+ does not consume
RECURSIVE DigitRunEnd(_, _)
DigitRunEnd(t, i) ==
    IF i <= Len(t) /\ t[i] \in DigitChars THEN DigitRunEnd(t, i + 1) ELSE i

\* int(m.group(2)): the decimal value of t[i..j-1]
RECURSIVE IntOf(_, _, _)
IntOf(t, i, j) ==
    IF j <= i THEN 0 ELSE IntOf(t, i, j - 1) * 10 + DigitVal(t[j - 1])

NoMatch == [fmt |-> None, ordinal |-> 0, prefix_len |-> 0]

\* Each Match... gives m.end() (the number of characters matched), 0 for no
\* match; m.end() of a match is never 0 as every pattern needs a character.
MatchParenArabic(t) ==     \* ^(\s*FWLPAREN)(\d+)(FWRPAREN)
    LET s == SkipWs(t, 1)
        e == DigitRunEnd(t, s + 1)
    IN  IF CharAt(t, s) = FWLPAREN /\ e > s + 1 /\ CharAt(t, e) = FWRPAREN
        THEN e ELSE 0

MatchRparen(t) ==          \* ^(\s*)(\d+)([)FWRPAREN])(\s?)
    LET s == SkipWs(t, 1)
        e == DigitRunEnd(t, s)
    IN  IF e > s /\ CharAt(t, e) \in {RPAREN, FWRPAREN}
        THEN (IF CharAt(t, e + 1) \in Whitespace THEN e + 1 ELSE e)
        ELSE 0

MatchNumDot(t) ==          \* ^(\s*)(\d+)(\. )
    LET s == SkipWs(t, 1)
        e == DigitRunEnd(t, s)
    IN  IF e > s /\ CharAt(t, e) = DOT /\ CharAt(t, e + 1) = SPACE
        THEN e + 1 ELSE 0

MatchEnclosed(t) ==        \* ^\s*([c1..c20])
    LET s == SkipWs(t, 1)
    IN  IF CharAt(t, s) \in EnclosedChars THEN s ELSE 0

MatchAlpha(t, letters) ==  \* ^\s*([a-z])[.)]\s   (or [A-Z])
    LET s == SkipWs(t, 1)
    IN  IF /\ CharAt(t, s) \in letters
           /\ CharAt(t, s + 1) \in {DOT, RPAREN}
           /\ CharAt(t, s + 2) \in Whitespace
        THEN s + 2 ELSE 0

detect_text_list_prefix(text) ==
    LET s == SkipWs(text, 1)
    IN  IF MatchParenArabic(text) > 0 THEN
            [fmt |-> "paren_arabic",
             ordinal |-> IntOf(text, s + 1, DigitRunEnd(text, s + 1)),
             prefix_len |-> MatchParenArabic(text)]
        ELSE IF MatchRparen(text) > 0 THEN
            [fmt |-> "rparen",
             ordinal |-> IntOf(text, s, DigitRunEnd(text, s)),
             prefix_len |-> MatchRparen(text)]
        ELSE IF MatchNumDot(text) > 0 THEN
            [fmt |-> "num_dot",
             ordinal |-> IntOf(text, s, DigitRunEnd(text, s)),
             prefix_len |-> MatchNumDot(text)]
        ELSE IF MatchEnclosed(text) > 0 THEN
            [fmt |-> "enclosed",
             ordinal |-> ENCLOSED_ORD(text[s]),
             prefix_len |-> MatchEnclosed(text)]
        ELSE IF MatchAlpha(text, LowerChars) > 0 THEN
            [fmt |-> "alpha_lower",
             ordinal |-> IndexOf(LowerSeq, text[s]),
             prefix_len |-> MatchAlpha(text, LowerChars)]
        ELSE IF MatchAlpha(text, UpperChars) > 0 THEN
            [fmt |-> "alpha_upper",
             ordinal |-> IndexOf(UpperSeq, text[s]),
             prefix_len |-> MatchAlpha(text, UpperChars)]
        ELSE NoMatch

(***************************************************************************)
(* Paragraphs                                                              *)
(*   container  identity of the parent element (body or a table cell)      *)
(*   runs       the texts of the w:r runs                                  *)
(*   numPr      the w:numPr children of pPr, each [ilvl, numId]            *)
(*   role       what get_role answers for the paragraph                    *)
(***************************************************************************)
RECURSIVE Concat(_)
Concat(ss) == IF ss = <<>> THEN <<>> ELSE Head(ss) \o Concat(Tail(ss))

\* Paragraph.text
ParaText(p) == Concat(p.runs)

\* str.strip() leaves nothing
AllWhitespace(t) == \A i \in 1..Len(t) : t[i] \in Whitespace

\* docx_utils.is_effectively_blank_paragraph (full-width space, NBSP and tab
\* are removed before strip(); all of them are whitespace for strip() too)
is_effectively_blank_paragraph(p) ==
    /\ AllWhitespace(ParaText(p))
    /\ \A r \in 1..Len(p.runs) : AllWhitespace(p.runs[r])

\* is_list_paragraph_fn: does the paragraph carry a w:numPr
is_list_paragraph(p) == p.numPr /= <<>>

(***************************************************************************)
(* Numbering XML helpers                                                   *)
(***************************************************************************)
SetMax(S) == CHOOSE m \in S : \A x \in S : x <= m

\* the ids _next_free_id collects: the w:abstractNumId attribute of every
\* w:abstractNum child and the w:numId attribute of every w:num child
UsedIds(nelem) == {nelem[i].id : i \in 1..Len(nelem)}

UsedIdsAbstractOnly(nelem) ==
    {nelem[i].id : i \in {j \in 1..Len(nelem) : nelem[j].tag = "abstractNum"}}

\* max(used, default=0) + 1
NextFreeIdOf(used) == IF used = {} THEN 1 ELSE SetMax(used) + 1

\* mutant: only the definition ids are scanned
next_free_id_abstract_only(nelem) == NextFreeIdOf(UsedIdsAbstractOnly(nelem))

_next_free_id(nelem) == NextFreeIdOf(UsedIds(nelem))

Max2(a, b) == IF a >= b THEN a ELSE b

\* mutant: the start ordinal is left at the default
build_abstractNum_default_start(abs_id, fmt, start_ordinal) ==
    [tag |-> "abstractNum", id |-> abs_id, fmt |-> fmt, start |-> 1, abs |-> 0]

\* _build_abstractNum: w:start is max(1, start_ordinal)
_build_abstractNum(abs_id, fmt, start_ordinal) ==
    [tag |-> "abstractNum", id |-> abs_id, fmt |-> fmt,
     start |-> Max2(1, start_ordinal), abs |-> 0]

_build_num(num_id, abs_id) ==
    [tag |-> "num", id |-> num_id, fmt |-> None, start |-> 0, abs |-> abs_id]

InsertAt(s, i, e) == SubSeq(s, 1, i - 1) \o <<e>> \o SubSeq(s, i, Len(s))

\* _insert_before_first_num
_insert_before_first_num(nelem, new_abstractNum) ==
    LET numIdx == {i \in 1..Len(nelem) : nelem[i].tag = "num"}
    IN  IF numIdx /= {}
        THEN InsertAt(nelem, CHOOSE i \in numIdx : \A j \in numIdx : i <= j,
                      new_abstractNum)
        ELSE Append(nelem, new_abstractNum)

\* create_list_num_id: the numbering element after the call; the id returned
\* is _next_free_id of the element before it
create_list_num_id(nelem, fmt, start_ordinal) ==
    LET new_id == _next_free_id(nelem)
    IN  Append(_insert_before_first_num(nelem,
                   _build_abstractNum(new_id, fmt, start_ordinal)),
               _build_num(new_id, new_id))

\* mutant: the new w:numPr is appended without removing the existing one
apply_numpr_no_remove(p, num_id, ilvl) ==
    [p EXCEPT !.numPr = Append(@, [ilvl |-> ilvl, numId |-> num_id])]

\* apply_numpr: remove the first existing w:numPr, append the new one
apply_numpr(p, num_id, ilvl) ==
    [p EXCEPT !.numPr =
        Append(IF @ /= <<>> THEN Tail(@) ELSE @,
               [ilvl |-> ilvl, numId |-> num_id])]

\* first loop of strip_list_text_prefix: the runs after removing `remaining`
\* leading characters
RECURSIVE StripRuns(_, _)
StripRuns(runs, remaining) ==
    IF runs = <<>> \/ remaining <= 0 THEN runs
    ELSE IF Len(Head(runs)) <= remaining
         THEN <<(<<>>)>> \o StripRuns(Tail(runs), remaining - Len(Head(runs)))
         ELSE <<SubSeq(Head(runs), remaining + 1, Len(Head(runs)))>> \o Tail(runs)

\* str.lstrip()
lstrip(t) == SubSeq(t, SkipWs(t, 1), Len(t))

\* mutant: the second loop looks at the first run only, empty or not
lstrip_first_run_only(runs) ==
    IF runs = <<>> THEN runs ELSE <<lstrip(Head(runs))>> \o Tail(runs)

\* second loop: lstrip the first non-empty run
RECURSIVE LstripFirstNonEmpty(_)
LstripFirstNonEmpty(runs) ==
    IF runs = <<>> THEN runs
    ELSE IF Head(runs) /= <<>> THEN <<lstrip(Head(runs))>> \o Tail(runs)
         ELSE <<Head(runs)>> \o LstripFirstNonEmpty(Tail(runs))

strip_list_text_prefix(p, prefix_char_count) ==
    [p EXCEPT !.runs = LstripFirstNonEmpty(StripRuns(@, prefix_char_count))]

(***************************************************************************)
(* convert_text_lists                                                      *)
(***************************************************************************)
MaxParas == 3

Containers == {"body", "tc1"}

TextBlank == <<>>
TextPlain == <<CJK>>
TextParen0 == <<FWLPAREN, "0", FWRPAREN, CJK>>
TextParen1 == <<FWLPAREN, "1", FWRPAREN, CJK>>
TextRparen2 == <<"2", FWRPAREN, CJK>>
SampleTexts == {TextBlank, TextPlain, TextParen0, TextParen1, TextRparen2}

Para(c, t, n, r) ==
    [container |-> c, runs |-> IF t = <<>> THEN <<>> ELSE <<t>>, numPr |-> n,
     role |-> r]

PreNumId == 5
PreAbstractId == 2

\* the paragraphs a document is made of: every sample text in every
\* container, a heading that looks like a list item, and a paragraph that
\* already carries native numbering
ParaKinds ==
    {Para(c, t, <<>>, "body") : c \in Containers, t \in SampleTexts}
    \cup {Para("body", TextParen1, <<>>, "h1"),
          Para("body", TextParen1, <<[ilvl |-> 0, numId |-> PreNumId]>>, "body")}

SeqsUpTo(S, n) == UNION {[1..k -> S] : k \in 1..n}

\* the numbering part before the call: absent/empty, or one list defined
PreNumberings ==
    {<<>>,
     <<[tag |-> "abstractNum", id |-> PreAbstractId, fmt |-> "num_dot",
        start |-> 1, abs |-> 0],
       [tag |-> "num", id |-> PreNumId, fmt |-> None, start |-> 0,
        abs |-> PreAbstractId]>>}

MinRunLens == {1, 2}

\* dict.setdefault(k, v)
SetDefault(d, k, v) ==
    IF k \in DOMAIN d THEN d
    ELSE [x \in DOMAIN d \cup {k} |-> IF x = k THEN v ELSE d[x]]

DEFAULT_MIN_RUN_LEN == 2

\* _validate_and_fill_defaults, the list_item section
_validate_and_fill_defaults(li) ==
    SetDefault(SetDefault(SetDefault(li, "left_indent_pt", 18),
                          "hanging_indent_pt", 18),
               "min_run_len", DEFAULT_MIN_RUN_LEN)

\* the list_item section as the configuration file gives it: without
\* min_run_len, or with a value for it
ListItemConfigs ==
    {[left_indent_pt |-> 18]}
        \cup {[left_indent_pt |-> 18, min_run_len |-> n] : n \in MinRunLens}

\* the min_run_len the formatter hands to convert_text_lists: the value of
\* the validated configuration
ConfiguredMinRunLen(li) == _validate_and_fill_defaults(li).min_run_len

NumIdsOf(nelem) ==
    {nelem[i].id : i \in {j \in 1..Len(nelem) : nelem[j].tag = "num"}}

\* every w:numPr of the document refers to a w:num of the numbering part
WellFormed(ps, nelem) ==
    \A i \in 1..Len(ps) : \A k \in 1..Len(ps[i].numPr) :
        ps[i].numPr[k].numId \in NumIdsOf(nelem)

ApplyIdle == calls = 0 /\ last_num_id = <<>>

NoOutcome == [kind |-> "none", paragraphs |-> <<>>]

RouterIdle ==
    /\ mode = None /\ blocks = <<>> /\ rule_labels = <<>>
    /\ llm_outcome = NoOutcome /\ analyzer_built = FALSE /\ review_calls = 0
    /\ rpc = "idle" /\ result = <<>> /\ source = None /\ warnings = <<>>
    /\ trig = {} /\ llm_called = None /\ route_exc = None /\ raised = FALSE

StripIdle ==
    strip_in = <<>> /\ strip_prefix = 0 /\ strip_out = <<>> /\ spc = "idle"

SplitIdle ==
    /\ sdoc = <<>> /\ sorig = <<>> /\ snapshot = <<>> /\ split_i = 1
    /\ created = 0 /\ returned = <<>> /\ lens = <<>> /\ sppc = "idle"

RoleIdle == dr_p = <<>> /\ dr_role = None /\ drpc = "idle"

AllocIdle ==
    al_pre = <<>> /\ al_nelem = <<>> /\ al_new_id = <<>> /\ al_ids = <<>>

NoResult == [kind |-> "none", error_type |-> None, content |-> None]

RetryIdle ==
    /\ rt_attempts = 1 /\ rt_backoff = 0 /\ attempt = 1 /\ last_error = None
    /\ rt_log = <<>> /\ rt_result = NoResult /\ rtpc = "idle"

FmtIdle ==
    /\ fdoc = <<>> /\ forig = <<>> /\ flabels = <<>> /\ label_by_elem = <<>>
    /\ max_blank_keep = 1 /\ role_getter = <<>> /\ report = <<>>
    /\ split_from = <<>> /\ fret = None /\ fpc = "idle"

MoreIdle == RoleIdle /\ AllocIdle /\ RetryIdle /\ FmtIdle

AuxIdle == StripIdle /\ SplitIdle /\ MoreIdle

NumIdle ==
    /\ paras = <<>> /\ numbering = <<>> /\ list_item = <<>>
    /\ min_run_len = 1 /\ pc = "idle"
    /\ scan_i = 1 /\ current = <<>> /\ current_fmt = None
    /\ current_container = None /\ groups = <<>> /\ conv_g = 1
    /\ converted = 0 /\ converted_paras = <<>>

InitNum ==
    /\ paras \in SeqsUpTo(ParaKinds, MaxParas)
    /\ numbering \in PreNumberings
    /\ WellFormed(paras, numbering)
    /\ list_item \in ListItemConfigs
    /\ min_run_len = ConfiguredMinRunLen(list_item)
    /\ pc = "scan"
    /\ scan_i = 1
    /\ current = <<>>
    /\ current_fmt = None
    /\ current_container = None
    /\ groups = <<>>
    /\ conv_g = 1
    /\ converted = 0
    /\ converted_paras = <<>>
    /\ ApplyIdle
    /\ RouterIdle
    /\ AuxIdle

\* mutant: the container is never compared
ContainerNeverChanges(p_container, cur_container) == FALSE

\* p_container is not current_container
ContainerChanged(p_container, cur_container) == p_container /= cur_container

\* mutant: a paragraph that already carries w:numPr is not skipped
breaks_group_ignoring_numpr(p) ==
    \/ is_effectively_blank_paragraph(p)
    \/ p.role \in STRUCTURAL_ROLES
    \/ detect_text_list_prefix(ParaText(p)) = NoMatch

\* the paragraph resets the accumulator and is skipped (the four `continue`s)
BreaksGroup(p) ==
    \/ is_effectively_blank_paragraph(p)
    \/ is_list_paragraph(p)
    \/ p.role \in STRUCTURAL_ROLES
    \/ detect_text_list_prefix(ParaText(p)) = NoMatch

\* one iteration of `for p in paragraphs`
ScanParagraph ==
    /\ pc = "scan"
    /\ scan_i <= Len(paras)
    /\ LET p == paras[scan_i]
           changed == ContainerChanged(p.container, current_container)
           flush1 == changed /\ current /= <<>>
           groups1 == IF flush1 THEN Append(groups, current) ELSE groups
           current1 == IF flush1 THEN <<>> ELSE current
           fmt1 == IF flush1 THEN None ELSE current_fmt
           r == detect_text_list_prefix(ParaText(p))
           item == [p |-> scan_i, fmt |-> r.fmt, ordinal |-> r.ordinal,
                    prefix_len |-> r.prefix_len]
           sequential ==
               /\ current1 /= <<>>
               /\ r.fmt \in DECIMAL_FMTS
               /\ fmt1 \in DECIMAL_FMTS
               /\ r.ordinal = current1[Len(current1)].ordinal + 1
       IN  /\ current_container' =
                  IF changed THEN p.container ELSE current_container
           /\ IF BreaksGroup(p) THEN
                  /\ groups' = IF current1 /= <<>>
                               THEN Append(groups1, current1) ELSE groups1
                  /\ current' = <<>>
                  /\ current_fmt' = IF current1 /= <<>> THEN None ELSE fmt1
              ELSE IF r.fmt = fmt1 \/ sequential THEN
                  /\ groups' = groups1
                  /\ current' = Append(current1, item)
                  /\ current_fmt' = fmt1
              ELSE
                  /\ groups' = IF current1 /= <<>>
                               THEN Append(groups1, current1) ELSE groups1
                  /\ current' = <<item>>
                  /\ current_fmt' = r.fmt
    /\ scan_i' = scan_i + 1
    /\ UNCHANGED <<paras, numbering, list_item, min_run_len, pc, conv_g, converted,
                   converted_paras>>
    /\ UNCHANGED <<applyVars, routerVars, auxVars>>

\* after the loop: `if current: groups.append(current)`
ScanEnd ==
    /\ pc = "scan"
    /\ scan_i > Len(paras)
    /\ groups' = IF current /= <<>> THEN Append(groups, current) ELSE groups
    /\ pc' = "convert"
    /\ UNCHANGED <<paras, numbering, list_item, min_run_len, scan_i, current, current_fmt,
                   current_container, conv_g, converted, converted_paras>>
    /\ UNCHANGED <<applyVars, routerVars, auxVars>>

GroupParas(group) == {group[k].p : k \in 1..Len(group)}
GroupItemOf(group, i) == group[CHOOSE k \in 1..Len(group) : group[k].p = i]

\* mutant: the minimum run length is not enforced
below_min_run_never(group, n) == FALSE

\* len(group) < min_run_len
BelowMinRun(group, n) == Len(group) < n

\* one iteration of `for group in groups`
ConvertGroup ==
    /\ pc = "convert"
    /\ conv_g <= Len(groups)
    /\ LET group == groups[conv_g]
           num_id == _next_free_id(numbering)
       IN  IF BelowMinRun(group, min_run_len) THEN
               UNCHANGED <<paras, numbering, converted, converted_paras>>
           ELSE
               /\ numbering' = create_list_num_id(numbering, group[1].fmt,
                                                  group[1].ordinal)
               /\ paras' =
                    [i \in 1..Len(paras) |->
                        IF i \in GroupParas(group)
                        THEN strip_list_text_prefix(
                                 apply_numpr(paras[i], num_id, 0),
                                 GroupItemOf(group, i).prefix_len)
                        ELSE paras[i]]
               /\ converted' = converted + Len(group)
               /\ converted_paras' =
                    converted_paras \o [k \in 1..Len(group) |-> group[k].p]
    /\ conv_g' = conv_g + 1
    /\ UNCHANGED <<list_item, min_run_len, pc, scan_i, current, current_fmt,
                   current_container, groups>>
    /\ UNCHANGED <<applyVars, routerVars, auxVars>>

\* return converted, converted_paras
ConvertReturn ==
    /\ pc = "convert"
    /\ conv_g > Len(groups)
    /\ pc' = "done"
    /\ UNCHANGED <<paras, numbering, list_item, min_run_len, scan_i, current, current_fmt,
                   current_container, groups, conv_g, converted,
                   converted_paras>>
    /\ UNCHANGED <<applyVars, routerVars, auxVars>>

NextNum == ScanParagraph \/ ScanEnd \/ ConvertGroup \/ ConvertReturn

SpecNum == InitNum /\ [][NextNum]_vars

(***************************************************************************)
(* Properties of convert_text_lists (checked under SpecNum)                *)
(***************************************************************************)
\* the groups the conversion loop has materialized so far
ConvertedGroups ==
    {g \in 1..Len(groups) : g < conv_g /\ Len(groups[g]) >= min_run_len}

\* the numbering id bound to the paragraphs of a materialized group
GroupNumId(g) ==
    LET n == paras[groups[g][1].p].numPr IN n[Len(n)].numId

ElementsWith(nelem, tag, id) ==
    {i \in 1..Len(nelem) : nelem[i].tag = tag /\ nelem[i].id = id}

SameContainer(group) ==
    \A a \in 1..Len(group) : \A b \in 1..Len(group) :
        paras[group[a].p].container = paras[group[b].p].container

\* the group the next ConvertGroup step materializes
Materializing ==
    /\ pc = "convert"
    /\ conv_g <= Len(groups)
    /\ Len(groups[conv_g]) >= min_run_len

\* C1 (step part): the id a group is given is strictly greater than every
\* abstractNumId and every numId in the numbering part when it is allocated.
C1_AllocatedAboveStore ==
    Materializing =>
        LET n == paras'[groups[conv_g][1].p].numPr
            new_id == n[Len(n)].numId
        IN  /\ \A x \in UsedIds(numbering) : new_id > x
            /\ ElementsWith(numbering', "num", new_id) /= {}
            /\ ElementsWith(numbering', "abstractNum", new_id) /= {}

\* C1 (state part): distinct materialized groups never share a numbering id,
\* no id is defined twice in the numbering part, and no paragraph outside a
\* group (one that was numbered before) carries the id of a group.
C1_NoSharedIds ==
    /\ \A g \in ConvertedGroups : \A h \in ConvertedGroups :
          g /= h => GroupNumId(g) /= GroupNumId(h)
    /\ \A i \in 1..Len(numbering) : \A j \in 1..Len(numbering) :
          (i /= j /\ numbering[i].tag = numbering[j].tag)
              => numbering[i].id /= numbering[j].id
    /\ \A g \in ConvertedGroups : \A i \in 1..Len(paras) :
          (i \notin GroupParas(groups[g]) /\ paras[i].numPr /= <<>>)
              => paras[i].numPr[1].numId /= GroupNumId(g)

\* C1: every numbering id allocated for a list group is strictly greater than
\* every definition id and every binding id present in the numbering store at
\* the moment of allocation; so no two distinct groups share an id and no new
\* id equals a pre-existing one, even for groups of the same marker family.
C1_FreshNumberingIds == [][C1_AllocatedAboveStore]_vars /\ []C1_NoSharedIds

\* C1 witness: the store held ids before the call and two groups of the same
\* marker family were materialized.
C1_Witness ==
    /\ pc = "done"
    /\ PreNumId \in NumIdsOf(numbering)
    /\ \E g \in ConvertedGroups : \E h \in ConvertedGroups :
          g /= h /\ groups[g][1].fmt = groups[h][1].fmt

\* C2: all paragraphs of one list group have the same container, so no
\* materialized numbering id is bound to paragraphs of two containers.
C2_GroupWithinOneContainer ==
    /\ \A g \in 1..Len(groups) : SameContainer(groups[g])
    /\ SameContainer(current)
    /\ \A a \in 1..Len(converted_paras) : \A b \in 1..Len(converted_paras) :
          LET pa == paras[converted_paras[a]]
              pb == paras[converted_paras[b]]
          IN  pa.numPr[Len(pa.numPr)].numId = pb.numPr[Len(pb.numPr)].numId
                  => pa.container = pb.container

\* C2 witness: adjacent paragraphs in different containers, same marker
\* family, consecutive ordinals, both materialized.
C2_Witness ==
    /\ pc = "done"
    /\ \E g \in ConvertedGroups : \E h \in ConvertedGroups :
          LET a == groups[g][Len(groups[g])]
              b == groups[h][1]
          IN  /\ b.p = a.p + 1
              /\ b.fmt = a.fmt
              /\ b.ordinal = a.ordinal + 1
              /\ paras[a.p].container /= paras[b.p].container

\* the w:start values of the definitions made for a materialized group
GroupStarts(g) ==
    {numbering[i].start :
        i \in ElementsWith(numbering, "abstractNum", GroupNumId(g))}

\* C3 as claimed: the starting ordinal written for a materialized group equals
\* the ordinal k detected on its first paragraph, for every k the detector
\* can return.
C3_StartEqualsFirstOrdinal ==
    \A g \in ConvertedGroups : GroupStarts(g) = {groups[g][1].ordinal}

\* C3 amended: the starting ordinal equals k when k >= 1 and is 1 when the
\* detected ordinal is 0 (w:start is clamped to at least 1).
C3_StartIsClampedFirstOrdinal ==
    \A g \in ConvertedGroups :
        GroupStarts(g) = {IF groups[g][1].ordinal >= 1
                          THEN groups[g][1].ordinal ELSE 1}

\* C3 witness: a group that begins mid-sequence (ordinal 2) and a group that
\* begins at ordinal 0 have both been materialized.
C3_Witness ==
    /\ pc = "done"
    /\ \E g \in ConvertedGroups : groups[g][1].ordinal = 2
    /\ \E g \in ConvertedGroups : groups[g][1].ordinal = 0

(***************************************************************************)
(* Direct calls of apply_numpr (SpecApply)                                 *)
(***************************************************************************)
MaxCalls == 3
MaxNumId == 3

\* a paragraph without numbering, and one that carries a native binding
\* (which the rule classifier labels list_item)
ApplyParaKinds ==
    {Para("body", TextPlain, <<>>, "body"),
     Para("body", TextPlain, <<[ilvl |-> 0, numId |-> PreNumId]>>,
          "list_item")}

InitApply ==
    /\ paras \in [1..2 -> ApplyParaKinds]
    /\ numbering \in PreNumberings
    /\ WellFormed(paras, numbering)
    /\ list_item = <<>>
    /\ min_run_len = 1
    /\ pc = "api"
    /\ scan_i = 1
    /\ current = <<>>
    /\ current_fmt = None
    /\ current_container = None
    /\ groups = <<>>
    /\ conv_g = 1
    /\ converted = 0
    /\ converted_paras = <<>>
    /\ calls = 0
    /\ last_num_id = [i \in 1..2 |-> [count |-> 0, num_id |-> 0]]
    /\ RouterIdle
    /\ AuxIdle

\* apply_numpr(paragraph, num_id, ilvl)
ApplyNumprCall ==
    /\ pc = "api"
    /\ calls < MaxCalls
    /\ \E i \in 1..Len(paras), num_id \in 1..MaxNumId, ilvl \in {0, 1} :
          /\ paras' = [paras EXCEPT ![i] = apply_numpr(@, num_id, ilvl)]
          /\ last_num_id' =
                [last_num_id EXCEPT ![i] = [count |-> @.count + 1,
                                             num_id |-> num_id]]
    /\ calls' = calls + 1
    /\ UNCHANGED <<numbering, list_item, min_run_len, pc, scan_i, current, current_fmt,
                   current_container, groups, conv_g, converted,
                   converted_paras>>
    /\ UNCHANGED <<routerVars, auxVars>>

NextApply == ApplyNumprCall

SpecApply == InitApply /\ [][NextApply]_vars

\* C4: after apply_numpr has been called any number of times on a paragraph
\* (same or different ids, with or without a binding beforehand), the
\* paragraph holds exactly one numbering binding, and it references the id
\* of the last call.
C4_ApplyNumprReplaces ==
    \A i \in 1..Len(paras) :
        last_num_id[i].count > 0 =>
            /\ Len(paras[i].numPr) = 1
            /\ paras[i].numPr[1].numId = last_num_id[i].num_id

\* C4 witness: a paragraph that carried a binding beforehand has been bound
\* three times and a paragraph without one has not been touched.
C4_Witness ==
    \E i \in 1..Len(paras) : \E j \in 1..Len(paras) :
        /\ paras[i].role = "list_item"
        /\ last_num_id[i].count = MaxCalls
        /\ Len(paras[i].numPr) = 1
        /\ paras[j].role = "body"
        /\ paras[j].numPr = <<>>

(***************************************************************************)
(* Label resolution: format_service._resolve_labels and ModeRouter         *)
(*                                                                         *)
(* A block's text is kept by its length len(text); texts carry no leading  *)
(* or trailing whitespace, so len(text.strip()) is the same number.        *)
(* Confidences are in hundredths (0.7 is 70).                              *)
(***************************************************************************)
HYBRID_CONFIDENCE_THRESHOLD == 70
HYBRID_TRIGGER_UNKNOWN_MIN == 1
HYBRID_TRIGGER_HEADING_LEN == 30
HYBRID_TRIGGER_CONSECUTIVE_BODY_MIN == 3
HYBRID_TRIGGER_SHORT_BODY_CHARS == 60

\* LLM_TO_INTERNAL_ROLE.get(role, "unknown")
_normalize_role(role) ==
    CASE role = "title_1" -> "h1"
      [] role = "title_2" -> "h2"
      [] role = "title_3" -> "h3"
      [] role = "body" -> "body"
      [] role = "list_item" -> "list_item"
      [] role = "table_caption" -> "caption"
      [] role = "figure_caption" -> "caption"
      [] role = "abstract" -> "abstract"
      [] role = "keyword" -> "keyword"
      [] role = "reference" -> "reference"
      [] role = "footer" -> "footer"
      [] role = "unknown" -> "unknown"
      [] OTHER -> "unknown"

\* the entries of structure.paragraphs for one paragraph index
EntriesFor(structure, idx) ==
    {k \in 1..Len(structure) : structure[k].index = idx}

\* _structure_to_labels: a dict comprehension, so the last entry for an index
\* is the one kept.  LabelledIndices is the dict's key set.
LabelledIndices(structure) == {structure[k].index : k \in 1..Len(structure)}

_structure_to_labels(structure, idx) ==
    _normalize_role(structure[SetMax(EntriesFor(structure, idx))].paragraph_type)

\* mutant: a confidence equal to the threshold counts as low
structure_low_confidence_inclusive(structure) ==
    {structure[k].index :
        k \in {j \in 1..Len(structure) :
                  structure[j].confidence <= HYBRID_CONFIDENCE_THRESHOLD}}

\* _structure_low_confidence
_structure_low_confidence(structure) ==
    {structure[k].index :
        k \in {j \in 1..Len(structure) :
                  structure[j].confidence < HYBRID_CONFIDENCE_THRESHOLD}}

\* trigger 3: the paragraph indices of every run of at least
\* HYBRID_TRIGGER_CONSECUTIVE_BODY_MIN consecutive short body blocks
RECURSIVE ShortBodyRuns(_, _, _, _, _)
ShortBodyRuns(bs, labels, i, run, acc) ==
    LET flushed == IF Cardinality(run) >= HYBRID_TRIGGER_CONSECUTIVE_BODY_MIN
                   THEN acc \cup run ELSE acc
    IN  IF i > Len(bs) THEN flushed
        ELSE IF /\ labels[bs[i].block_id] = "body"
                /\ 0 < bs[i].len
                /\ bs[i].len <= HYBRID_TRIGGER_SHORT_BODY_CHARS
             THEN ShortBodyRuns(bs, labels, i + 1,
                                run \cup {bs[i].paragraph_index}, acc)
             ELSE ShortBodyRuns(bs, labels, i + 1, {}, flushed)

\* mutant: trigger 2 looks at h2 headings only
ambiguous_heading_h2_only(role, len) ==
    role = "h2" /\ len > HYBRID_TRIGGER_HEADING_LEN

\* trigger 2: a block labelled h2 or h3 whose text is longer than
\* HYBRID_TRIGGER_HEADING_LEN
IsAmbiguousHeading(role, len) ==
    role \in {"h2", "h3"} /\ len > HYBRID_TRIGGER_HEADING_LEN

\* mutant: the router always asks the classifier
triggered_always(triggered_indices) == TRUE

\* "triggered": bool(triggered_indices)
Triggered(triggered_indices) == triggered_indices /= {}

_compute_hybrid_triggers(bs, labels) ==
    LET unknown_blocks ==
            {i \in 1..Len(bs) : labels[bs[i].block_id] = "unknown"}
        ambiguous_headings ==
            {i \in 1..Len(bs) :
                IsAmbiguousHeading(labels[bs[i].block_id], bs[i].len)}
        t1 == IF Cardinality(unknown_blocks) >= HYBRID_TRIGGER_UNKNOWN_MIN
              THEN {bs[i].paragraph_index : i \in unknown_blocks} ELSE {}
        t2 == {bs[i].paragraph_index : i \in ambiguous_headings}
        t3 == ShortBodyRuns(bs, labels, 1, {}, {})
    IN  [triggered |-> Triggered(t1 \cup t2 \cup t3),
         triggered_indices |-> t1 \cup t2 \cup t3,
         unknown_count |-> Cardinality(unknown_blocks),
         ambiguous_heading_count |-> Cardinality(ambiguous_headings)]

\* _hybrid, lines 241-243: result[b.block_id] = rule_labels.get(b.block_id)
RuleResult(bs, labels) == [i \in 1..Len(bs) |-> labels[bs[i].block_id]]

\* mutant: the merge loop does not skip the non-triggered paragraphs
in_triggered_always(idx, triggered_indices) == TRUE

\* b.paragraph_index in trigger_info["triggered_indices"]
InTriggered(idx, triggered_indices) == idx \in triggered_indices

\* _hybrid, lines 285-296: merge of the review into the rule result
HybridMerge(bs, labels, triggered_indices, review) ==
    LET low_conf_indices == _structure_low_confidence(review)
    IN  [i \in 1..Len(bs) |->
            IF ~InTriggered(bs[i].paragraph_index, triggered_indices)
            THEN labels[bs[i].block_id]
            ELSE IF bs[i].paragraph_index \in low_conf_indices
            THEN labels[bs[i].block_id]
            ELSE IF bs[i].paragraph_index \in LabelledIndices(review)
            THEN _structure_to_labels(review, bs[i].paragraph_index)
            ELSE labels[bs[i].block_id]]

\* mutant: the mapping drops the classifier's entries below the threshold
map_review_confident_only(review, bs, labels) ==
    [i \in 1..Len(bs) |->
        IF /\ bs[i].paragraph_index \in LabelledIndices(review)
           /\ bs[i].paragraph_index \notin _structure_low_confidence(review)
        THEN _structure_to_labels(review, bs[i].paragraph_index)
        ELSE labels[bs[i].block_id]]

\* _map_review_to_block_ids
_map_review_to_block_ids(review, bs, labels) ==
    [i \in 1..Len(bs) |->
        IF bs[i].paragraph_index \in LabelledIndices(review)
        THEN _structure_to_labels(review, bs[i].paragraph_index)
        ELSE labels[bs[i].block_id]]

(***************************************************************************)
(* _resolve_labels -> ModeRouter.route as a state machine                  *)
(***************************************************************************)
MaxBlocks == 3
MaxTags == 2

\* rule role and text length of the sampled blocks; route takes any rule
\* label set, and unknown is among the roles its triggers test for
BlockKinds ==
    {[role |-> "unknown", len |-> 10],
     [role |-> "h1", len |-> 40],
     [role |-> "h2", len |-> 40],
     [role |-> "h2", len |-> 30],
     [role |-> "h3", len |-> 40],
     [role |-> "body", len |-> 10]}

\* parse_docx_to_blocks numbers the blocks 1, 2, ... in paragraph order
BlocksOf(kinds) ==
    [i \in 1..Len(kinds) |->
        [block_id |-> i, paragraph_index |-> i - 1, len |-> kinds[i].len]]

Modes == {"rule", "llm", "hybrid"}

\* the ParagraphTag entries a review may carry
ReviewIndices == {0, 1}
ReviewTypes == {"title_1", "unknown"}
ReviewConfidences == {50, 70}
ParagraphTags ==
    [index : ReviewIndices, paragraph_type : ReviewTypes,
     confidence : ReviewConfidences]
Reviews == {<<>>} \cup SeqsUpTo(ParagraphTags, MaxTags)

InitRouter ==
    /\ NumIdle
    /\ ApplyIdle
    /\ AuxIdle
    /\ mode \in Modes
    /\ \E kinds \in SeqsUpTo(BlockKinds, MaxBlocks) :
          /\ blocks = BlocksOf(kinds)
          /\ rule_labels = [i \in 1..Len(kinds) |-> kinds[i].role]
    /\ llm_outcome = NoOutcome
    /\ analyzer_built = FALSE
    /\ review_calls = 0
    /\ rpc = "start"
    /\ result = <<>>
    /\ source = None
    /\ warnings = <<>>
    /\ trig = {}
    /\ llm_called = None
    /\ route_exc = None
    /\ raised = FALSE

\* mutant: _hybrid lets the classifier's failure through
hybrid_catches_nothing(exc) == FALSE

\* _hybrid: except LLMCallError
HybridCatches(exc) == exc = "LLMCallError"

\* mutant: _resolve_labels without its try/except
service_catches_nothing(exc) == FALSE

\* _resolve_labels: except Exception
ServiceCatches(exc) == TRUE

\* mutant: _hybrid reports the rule source
hybrid_source_rule == "rule"

\* _hybrid: result["_source"] = "hybrid"
HybridSource == "hybrid"

\* _resolve_labels in rule mode: the rule labels, untouched
ResolveRule ==
    /\ rpc = "start"
    /\ mode = "rule"
    /\ result' = rule_labels
    /\ source' = "rule_based"
    /\ rpc' = "returned"
    /\ UNCHANGED <<mode, blocks, rule_labels, llm_outcome, analyzer_built,
                   review_calls, warnings, trig, llm_called, route_exc,
                   raised>>
    /\ UNCHANGED <<numVars, applyVars, auxVars>>

\* _hybrid when no trigger fires: lines 239-257
HybridNoTrigger ==
    /\ rpc = "start"
    /\ mode = "hybrid"
    /\ LET trigger_info == _compute_hybrid_triggers(blocks, rule_labels)
       IN  /\ ~trigger_info.triggered
           /\ trig' = trigger_info.triggered_indices
    /\ result' = RuleResult(blocks, rule_labels)
    /\ source' = HybridSource
    /\ llm_called' = FALSE
    /\ rpc' = "returned"
    /\ UNCHANGED <<mode, blocks, rule_labels, llm_outcome, analyzer_built,
                   review_calls, warnings, route_exc, raised>>
    /\ UNCHANGED <<numVars, applyVars, auxVars>>

\* _hybrid when a trigger fires: lines 239-264, up to the classifier call
HybridTriggered ==
    /\ rpc = "start"
    /\ mode = "hybrid"
    /\ LET trigger_info == _compute_hybrid_triggers(blocks, rule_labels)
       IN  /\ trigger_info.triggered
           /\ trig' = trigger_info.triggered_indices
    /\ result' = RuleResult(blocks, rule_labels)
    /\ source' = HybridSource
    /\ rpc' = "call"
    /\ UNCHANGED <<mode, blocks, rule_labels, llm_outcome, analyzer_built,
                   review_calls, warnings, llm_called, route_exc, raised>>
    /\ UNCHANGED <<numVars, applyVars, auxVars>>

\* route in llm mode enters _llm, which always asks the classifier
LlmEnter ==
    /\ rpc = "start"
    /\ mode = "llm"
    /\ rpc' = "call"
    /\ UNCHANGED <<mode, blocks, rule_labels, llm_outcome, analyzer_built,
                   review_calls, result, source, warnings, trig, llm_called,
                   route_exc, raised>>
    /\ UNCHANGED <<numVars, applyVars, auxVars>>

\* what becomes of an exception raised while asking the classifier
CallFailed(exc) ==
    IF mode = "hybrid" /\ HybridCatches(exc)
    THEN /\ warnings' = Append(warnings, "hybrid_llm_failed")
         /\ llm_called' = TRUE
         /\ rpc' = "returned"
         /\ UNCHANGED <<result, source, route_exc, raised>>
    ELSE /\ route_exc' = exc
         /\ IF ServiceCatches(exc)
            THEN /\ result' = rule_labels
                 /\ source' = "rule_based"
                 /\ warnings' = Append(warnings, "llm_labeling_failed")
                 /\ rpc' = "returned"
                 /\ UNCHANGED <<llm_called, raised>>
            ELSE /\ raised' = TRUE
                 /\ rpc' = "raised"
                 /\ UNCHANGED <<result, source, warnings, llm_called>>

\* self.analyzer: LLMClient() raises LLMCallError when no API key is set
AnalyzerInitFails ==
    /\ rpc = "call"
    /\ llm_outcome' = [kind |-> "init_error", paragraphs |-> <<>>]
    /\ CallFailed("LLMCallError")
    /\ UNCHANGED <<mode, blocks, rule_labels, analyzer_built, review_calls,
                   trig>>
    /\ UNCHANGED <<numVars, applyVars, auxVars>>

\* call_review raises LLMCallError: unreachable, timeout, unparsable output
CallReviewFails ==
    /\ rpc = "call"
    /\ analyzer_built' = TRUE
    /\ review_calls' = review_calls + 1
    /\ llm_outcome' = [kind |-> "call_error", paragraphs |-> <<>>]
    /\ CallFailed("LLMCallError")
    /\ UNCHANGED <<mode, blocks, rule_labels, trig>>
    /\ UNCHANGED <<numVars, applyVars, auxVars>>

\* call_review returns a DocumentReview; _hybrid merges it, _llm maps it
CallReviewReturns ==
    /\ rpc = "call"
    /\ analyzer_built' = TRUE
    /\ review_calls' = review_calls + 1
    /\ \E review \in Reviews :
          /\ llm_outcome' = [kind |-> "review", paragraphs |-> review]
          /\ IF mode = "hybrid"
             THEN /\ result' = HybridMerge(blocks, rule_labels, trig, review)
                  /\ llm_called' = TRUE
                  /\ warnings' =
                        IF _structure_low_confidence(review) /= {}
                        THEN Append(warnings, "hybrid_low_confidence")
                        ELSE warnings
                  /\ UNCHANGED source
             ELSE /\ result' =
                        _map_review_to_block_ids(review, blocks, rule_labels)
                  /\ source' = "llm"
                  /\ UNCHANGED <<warnings, llm_called>>
    /\ rpc' = "returned"
    /\ UNCHANGED <<mode, blocks, rule_labels, trig, route_exc, raised>>
    /\ UNCHANGED <<numVars, applyVars, auxVars>>

NextRouter ==
    \/ ResolveRule
    \/ HybridNoTrigger
    \/ HybridTriggered
    \/ LlmEnter
    \/ AnalyzerInitFails
    \/ CallReviewFails
    \/ CallReviewReturns

SpecRouter == InitRouter /\ [][NextRouter]_vars

(***************************************************************************)
(* Claims on label resolution, checked under SpecRouter                    *)
(***************************************************************************)
ClassifierFailed == llm_outcome.kind \in {"init_error", "call_error"}

\* every block carries its rule label in the returned label set
AllRuleLabels ==
    /\ DOMAIN result = 1..Len(blocks)
    /\ \A i \in 1..Len(blocks) : result[i] = rule_labels[blocks[i].block_id]

TriggeredNow == _compute_hybrid_triggers(blocks, rule_labels).triggered_indices

\* C5: in hybrid mode, when no trigger condition fires on the rule labels,
\* the classifier client is never constructed and never called, and the
\* label returned for every block is that block's rule label.
C5_NoTriggerNoClassifier ==
    (mode = "hybrid" /\ TriggeredNow = {}) =>
        /\ ~analyzer_built
        /\ review_calls = 0
        /\ llm_outcome = NoOutcome
        /\ rpc \in {"start", "returned"}
        /\ rpc = "returned" => (AllRuleLabels /\ llm_called = FALSE)

\* C5 witness: a hybrid run over several blocks returned with no trigger
C5_Witness ==
    /\ mode = "hybrid"
    /\ rpc = "returned"
    /\ Len(blocks) >= 2
    /\ TriggeredNow = {}
    /\ AllRuleLabels

\* C6: in hybrid mode, when the classifier call fails, no exception leaves
\* the router; the label set it returns gives every block its rule label and
\* carries exactly one appended warning, the one describing the failure.
C6_HybridFailureKeepsRuleLabels ==
    (mode = "hybrid" /\ ClassifierFailed) =>
        /\ rpc = "returned"
        /\ route_exc = None
        /\ ~raised
        /\ AllRuleLabels
        /\ warnings = <<"hybrid_llm_failed">>

\* C6 witness: a triggered hybrid run whose call_review raised
C6_Witness ==
    /\ mode = "hybrid"
    /\ llm_outcome.kind = "call_error"
    /\ review_calls = 1
    /\ rpc = "returned"
    /\ trig /= {}
    /\ Len(blocks) >= 2

\* C7 as written: in hybrid mode with a triggered paragraph and a failing
\* classifier, the returned label set reports its source as rule.
C7_SourceIsRule ==
    (mode = "hybrid" /\ ClassifierFailed /\ rpc = "returned") =>
        source = "rule"

\* C7 as amended: in hybrid mode with a triggered paragraph and a failing
\* classifier, the returned label set reports its source as hybrid.
C7_SourceIsHybrid ==
    (mode = "hybrid" /\ ClassifierFailed /\ rpc = "returned") =>
        source = "hybrid"

\* C7 witness: the scenario itself, rule labels {0: unknown} and a failure
C7_Witness ==
    /\ mode = "hybrid"
    /\ Len(blocks) = 1
    /\ rule_labels[blocks[1].block_id] = "unknown"
    /\ 0 \in trig
    /\ ClassifierFailed
    /\ rpc = "returned"
    /\ result[1] = "unknown"

\* C8: in llm mode, when the classifier call fails outright, label resolution
\* raises nothing: its output is the rule-only label set, every block with
\* its rule label, and a warning is recorded in it.
C8_LlmFailureFallsBackToRule ==
    (mode = "llm" /\ ClassifierFailed) =>
        /\ rpc = "returned"
        /\ ~raised
        /\ result = rule_labels
        /\ AllRuleLabels
        /\ source = "rule_based"
        /\ Len(warnings) = 1

\* C8 witness: an llm-mode run whose call_review raised inside the router
C8_Witness ==
    /\ mode = "llm"
    /\ llm_outcome.kind = "call_error"
    /\ route_exc = "LLMCallError"
    /\ rpc = "returned"
    /\ Len(blocks) >= 2

\* C9: in hybrid mode, every block whose paragraph index is not in the
\* triggered set is returned with its rule label, whatever the classifier
\* returned, results for non-triggered indices included.
C9_NonTriggeredKeepRuleLabel ==
    (mode = "hybrid" /\ rpc = "returned") =>
        \A i \in 1..Len(blocks) :
            blocks[i].paragraph_index \notin TriggeredNow =>
                result[i] = rule_labels[blocks[i].block_id]

\* C9 witness: the classifier returned a confident, different role for a
\* paragraph outside the triggered set
C9_Witness ==
    /\ mode = "hybrid"
    /\ rpc = "returned"
    /\ llm_outcome.kind = "review"
    /\ \E i \in 1..Len(blocks) :
          /\ blocks[i].paragraph_index \notin TriggeredNow
          /\ \E k \in EntriesFor(llm_outcome.paragraphs,
                                 blocks[i].paragraph_index) :
                /\ llm_outcome.paragraphs[k].confidence >= 70
                /\ _normalize_role(llm_outcome.paragraphs[k].paragraph_type)
                      /= rule_labels[blocks[i].block_id]

\* the single result the classifier returned for a paragraph index
TheEntry(structure, idx) ==
    structure[CHOOSE k \in EntriesFor(structure, idx) : TRUE]

\* C10: in hybrid mode, for every triggered paragraph for which the
\* classifier returned a result (one result for that paragraph index), the
\* final label is the result's role mapped to the internal vocabulary when
\* the result's confidence is at least 0.7, and the rule label otherwise.
C10_ThresholdDecidesTriggeredLabel ==
    (mode = "hybrid" /\ rpc = "returned" /\ llm_outcome.kind = "review") =>
        \A i \in 1..Len(blocks) :
            LET idx == blocks[i].paragraph_index
                review == llm_outcome.paragraphs
            IN  (/\ idx \in TriggeredNow
                 /\ Cardinality(EntriesFor(review, idx)) = 1) =>
                    result[i] =
                        IF TheEntry(review, idx).confidence >= 70
                        THEN _normalize_role(
                                 TheEntry(review, idx).paragraph_type)
                        ELSE rule_labels[blocks[i].block_id]

\* C10 witness: one triggered paragraph took the classifier's role at
\* confidence exactly 0.7 and another kept its rule label at 0.5
C10_Witness ==
    /\ mode = "hybrid"
    /\ rpc = "returned"
    /\ llm_outcome.kind = "review"
    /\ Len(llm_outcome.paragraphs) = 2
    /\ {0, 1} \subseteq TriggeredNow
    /\ llm_outcome.paragraphs[1].index = 0
    /\ llm_outcome.paragraphs[1].confidence = 70
    /\ result[1] = _normalize_role(llm_outcome.paragraphs[1].paragraph_type)
    /\ result[1] /= rule_labels[blocks[1].block_id]
    /\ llm_outcome.paragraphs[2].index = 1
    /\ llm_outcome.paragraphs[2].confidence = 50
    /\ result[2] = rule_labels[blocks[2].block_id]

(***************************************************************************)
(* Label coverage, as apply_formatting reports it                          *)
(***************************************************************************)
\* labeled_blocks: the blocks whose label is neither blank nor unknown
labeled_blocks(labels, bs) ==
    Cardinality({i \in 1..Len(bs) :
                    labels[bs[i].block_id] \notin {"blank", "unknown"}})

\* coverage_rate = labeled_blocks / total_blocks (0.0 for no block), kept as
\* a fraction
coverage_rate(labels, bs) ==
    IF Len(bs) = 0 THEN [num |-> 0, den |-> 1]
    ELSE [num |-> labeled_blocks(labels, bs), den |-> Len(bs)]

\* a >= b for two fractions with positive denominators
RateGeq(a, b) == a.num * b.den >= b.num * a.den

\* C11: the coverage rate of the label set hybrid mode returns is at least
\* the coverage rate of the rule-only label set of the same blocks, whatever
\* the classifier answered.
C11_HybridCoverageNotBelowRule ==
    (mode = "hybrid" /\ rpc = "returned") =>
        RateGeq(coverage_rate(result, blocks),
                coverage_rate(rule_labels, blocks))

\* the internal roles of the entries a review holds for a paragraph index
RolesFor(structure, idx) ==
    {_normalize_role(structure[k].paragraph_type) :
        k \in EntriesFor(structure, idx)}

\* C12: in llm mode with a successful classifier call, every block has one
\* label: the (internal) role of the review's entry for the block's paragraph
\* index when the review has one, whatever its confidence, and the block's
\* rule label otherwise.
C12_LlmModeUsesReviewElseRule ==
    (mode = "llm" /\ rpc = "returned" /\ llm_outcome.kind = "review") =>
        /\ DOMAIN result = 1..Len(blocks)
        /\ \A i \in 1..Len(blocks) :
              LET idx == blocks[i].paragraph_index
                  review == llm_outcome.paragraphs
              IN  IF EntriesFor(review, idx) = {}
                  THEN result[i] = rule_labels[blocks[i].block_id]
                  ELSE result[i] \in RolesFor(review, idx)

\* C12 witness: one block took a low-confidence role that differs from its
\* rule label, another block the review does not cover kept its rule label
C12_Witness ==
    /\ mode = "llm"
    /\ rpc = "returned"
    /\ llm_outcome.kind = "review"
    /\ Len(blocks) >= 2
    /\ llm_outcome.paragraphs =
          <<[index |-> 0, paragraph_type |-> "title_1", confidence |-> 50]>>
    /\ rule_labels[blocks[1].block_id] = "body"
    /\ result[1] = "h1"
    /\ result[2] = rule_labels[blocks[2].block_id]

\* the run went past the trigger gate of _hybrid
TriggerFired ==
    \/ rpc = "call"
    \/ rpc = "returned" /\ llm_outcome.kind /= "none"

\* C13 as written: every block whose rule label is h1, h2 or h3 and whose
\* text is longer than 30 characters is in the triggered set, and the
\* trigger fires.
C13_LongHeadingsTrigger ==
    (mode = "hybrid" /\ rpc /= "start") =>
        \A i \in 1..Len(blocks) :
            (/\ rule_labels[blocks[i].block_id] \in {"h1", "h2", "h3"}
             /\ blocks[i].len > 30) =>
                (blocks[i].paragraph_index \in trig /\ TriggerFired)

\* C13 as amended: every block whose rule label is h2 or h3 and whose text
\* is longer than 30 characters is in the triggered set, and the trigger
\* fires; a long h1 heading does not trigger.
C13_LongSubHeadingsTrigger ==
    (mode = "hybrid" /\ rpc /= "start") =>
        \A i \in 1..Len(blocks) :
            (/\ rule_labels[blocks[i].block_id] \in {"h2", "h3"}
             /\ blocks[i].len > 30) =>
                (blocks[i].paragraph_index \in trig /\ TriggerFired)

\* C13 witness: a long h3 heading alone made the trigger fire, next to an h2
\* heading of exactly 30 characters that is not in the triggered set
C13_Witness ==
    /\ mode = "hybrid"
    /\ rpc = "returned"
    /\ TriggerFired
    /\ Len(blocks) = 2
    /\ rule_labels[blocks[1].block_id] = "h3" /\ blocks[1].len = 40
    /\ rule_labels[blocks[2].block_id] = "h2" /\ blocks[2].len = 30
    /\ trig = {0}

(***************************************************************************)
(* Claims on the grouper of convert_text_lists, checked under SpecNum      *)
(***************************************************************************)
\* the paragraphs are still the input paragraphs: no group was converted yet
BeforeConversion == pc = "scan" \/ (pc = "convert" /\ conv_g = 1)

\* the groups built so far, the accumulator included
GroupsSoFar ==
    IF pc = "scan" /\ current /= <<>> THEN Append(groups, current) ELSE groups

\* a paragraph the grouper must never take into a group
Ineligible(p) ==
    \/ AllWhitespace(ParaText(p))
    \/ p.numPr /= <<>>
    \/ p.role \in {"h1", "h2", "h3", "caption", "abstract", "keyword",
                   "reference", "footer"}
    \/ detect_text_list_prefix(ParaText(p)) = NoMatch

\* C14: every list group is a contiguous run of the input sequence (its
\* members are consecutive paragraphs), and no member is blank, carries a
\* native numbering reference, has a structural role or lacks a detectable
\* marker; so no such paragraph lies between two members of a group.
C14_GroupsAreContiguousEligibleRuns ==
    BeforeConversion =>
        \A g \in 1..Len(GroupsSoFar) :
            LET group == GroupsSoFar[g]
            IN  /\ Len(group) >= 1
                /\ \A k \in 1..Len(group) : ~Ineligible(paras[group[k].p])
                /\ \A k \in 1..(Len(group) - 1) :
                      group[k + 1].p = group[k].p + 1
                /\ \A i \in 1..Len(paras) :
                      (group[1].p < i /\ i < group[Len(group)].p) =>
                          ~Ineligible(paras[i])

\* C14 witness: a paragraph with native numbering and a marker-like text
\* separates two groups of the same container
C14_Witness ==
    /\ pc = "convert"
    /\ conv_g = 1
    /\ Len(paras) = 3
    /\ Len(groups) = 2
    /\ paras[2].numPr /= <<>>
    /\ detect_text_list_prefix(ParaText(paras[2])) /= NoMatch
    /\ paras[1].container = paras[3].container
    /\ groups[1][1].p = 1
    /\ groups[2][1].p = 3

\* C15: in every list group, a member whose marker family differs from the
\* family of the member before it is there only if both families are
\* decimal-style (paren_arabic, rparen) and its ordinal is the previous
\* member's ordinal + 1.
C15_FamilyChangeOnlyWhenConsecutive ==
    \A g \in 1..Len(GroupsSoFar) :
        LET group == GroupsSoFar[g]
        IN  \A k \in 2..Len(group) :
                group[k].fmt /= group[k - 1].fmt =>
                    /\ group[k].fmt \in {"paren_arabic", "rparen"}
                    /\ group[k - 1].fmt \in {"paren_arabic", "rparen"}
                    /\ group[k].ordinal = group[k - 1].ordinal + 1

\* the groups with fewer members than min_run_len
ShortGroups == {g \in 1..Len(groups) : Len(groups[g]) < min_run_len}

\* C16 (step part): the step that meets a group shorter than min_run_len
\* changes no paragraph, allocates nothing in the numbering part and counts
\* nothing as converted.
C16_ShortGroupStepChangesNothing ==
    (/\ pc = "convert"
     /\ conv_g <= Len(groups)
     /\ Len(groups[conv_g]) < min_run_len) =>
        /\ paras' = paras
        /\ numbering' = numbering
        /\ converted' = converted
        /\ converted_paras' = converted_paras

\* C16 (state part): a member of a short group never has a numbering binding,
\* its text still carries the marker that was detected on it, and the
\* numbering part holds one w:num more per converted group and none for a
\* short group.
C16_ShortGroupMembersUntouched ==
    pc \in {"convert", "done"} =>
        /\ \A g \in ShortGroups : \A k \in 1..Len(groups[g]) :
              LET p == paras[groups[g][k].p]
                  r == detect_text_list_prefix(ParaText(p))
              IN  /\ p.numPr = <<>>
                  /\ r /= NoMatch
                  /\ r.fmt = groups[g][k].fmt
                  /\ r.ordinal = groups[g][k].ordinal
                  /\ r.prefix_len = groups[g][k].prefix_len
                  /\ groups[g][k].p \notin Range(converted_paras)
        /\ \A g \in ShortGroups : \A i \in 1..Len(numbering) :
              numbering[i].tag = "abstractNum" =>
                  (numbering[i].id = PreAbstractId
                   \/ \E h \in ConvertedGroups : numbering[i].id = GroupNumId(h))

\* C16: a list group with fewer members than min_run_len is discarded
\* without modification: no member gets a numbering binding or has its text
\* changed, and no numbering definition or id is allocated for the group.
C16_ShortGroupsDiscarded ==
    [][C16_ShortGroupStepChangesNothing]_vars
        /\ []C16_ShortGroupMembersUntouched

\* C16 witness: with min_run_len 2, a group of one member was passed over
\* while a group of two members was converted
C16_Witness ==
    /\ pc = "done"
    /\ min_run_len = 2
    /\ ShortGroups /= {}
    /\ ConvertedGroups /= {}
    /\ converted = 2

\* a group of one member: an isolated marked paragraph
SingletonGroups == {g \in 1..Len(groups) : Len(groups[g]) = 1}

\* C17: when the configuration does not specify list_item.min_run_len, the
\* effective minimum group size is 1, and a single isolated marked paragraph
\* is converted to native numbering.
C17_DefaultMinRunLenIsOne ==
    "min_run_len" \notin DOMAIN list_item =>
        /\ pc /= "idle" => min_run_len = 1
        /\ pc = "done" =>
              \A g \in SingletonGroups :
                  paras[groups[g][1].p].numPr /= <<>>

(***************************************************************************)
(* strip_list_text_prefix on a paragraph whose text is spread over runs    *)
(***************************************************************************)
MaxRuns == 3

\* texts that start with a marker, followed by no, one or several
\* whitespace characters
StripTexts ==
    {<<FWLPAREN, "1", FWRPAREN, CJK>>,
     <<FWLPAREN, "1", FWRPAREN, SPACE, CJK>>,
     <<FWLPAREN, "1", FWRPAREN, SPACE, SPACE, CJK>>,
     <<"2", FWRPAREN, SPACE, CJK, SPACE, CJK>>,
     <<"2", RPAREN, SPACE, TAB, CJK>>,
     <<SPACE, "1", DOT, SPACE, CJK>>,
     <<"a", RPAREN, SPACE, CJK>>}

\* the ways to cut a text into k consecutive runs, empty runs included
RECURSIVE SplitsInto(_, _)
SplitsInto(t, k) ==
    IF k = 1 THEN {<<t>>}
    ELSE UNION {{<<SubSeq(t, 1, a)>> \o rest :
                    rest \in SplitsInto(SubSeq(t, a + 1, Len(t)), k - 1)} :
                a \in 0..Len(t)}

InitStrip ==
    /\ NumIdle
    /\ ApplyIdle
    /\ RouterIdle
    /\ SplitIdle
    /\ MoreIdle
    /\ \E t \in StripTexts, k \in 1..MaxRuns :
          /\ strip_in \in SplitsInto(t, k)
          /\ strip_prefix = detect_text_list_prefix(t).prefix_len
    /\ strip_out = <<>>
    /\ spc = "call"

\* strip_list_text_prefix(p, prefix_len), as convert_text_lists calls it
StripCall ==
    /\ spc = "call"
    /\ strip_out' =
          strip_list_text_prefix([runs |-> strip_in], strip_prefix).runs
    /\ spc' = "done"
    /\ UNCHANGED <<strip_in, strip_prefix>>
    /\ UNCHANGED <<numVars, applyVars, routerVars, splitVars, moreVars>>

NextStrip == StripCall

SpecStrip == InitStrip /\ [][NextStrip]_vars

\* t without its first n characters
Drop(t, n) == SubSeq(t, n + 1, Len(t))

\* total length of the first r runs
RECURSIVE CumLen(_, _)
CumLen(runs, r) == IF r = 0 THEN 0 ELSE CumLen(runs, r - 1) + Len(runs[r])

\* the number of characters after position n up to the end of the run that
\* holds character n + 1 (0 when the text ends at n)
LeftInRunAfter(runs, n) ==
    IF CumLen(runs, Len(runs)) <= n THEN 0
    ELSE LET r == CHOOSE k \in 1..Len(runs) :
                     /\ CumLen(runs, k) > n
                     /\ \A j \in 1..(k - 1) : CumLen(runs, j) <= n
         IN  CumLen(runs, r) - n

LeadingWhitespace(t) == SkipWs(t, 1) - 1

Min2(a, b) == IF a <= b THEN a ELSE b

\* C18 as written: after stripping, the concatenated run text is the original
\* text without its first prefix_length characters and without one
\* whitespace character that follows them, if there is one; nothing else is
\* lost or reordered, however the text is spread over runs.
C18_TextMinusMarkerAndOneSpace ==
    spc = "done" =>
        LET rest == Drop(Concat(strip_in), strip_prefix)
        IN  Concat(strip_out) =
                IF rest /= <<>> /\ rest[1] \in Whitespace
                THEN Tail(rest) ELSE rest

\* C18 as amended: after stripping, the concatenated run text is the original
\* text without its first prefix_length characters and without the
\* whitespace that directly follows them as far as it lies in the run where
\* the remaining text starts (one whitespace character after the marker is
\* therefore always removed); nothing else is lost or reordered, and the
\* paragraph keeps its runs.
C18_TextMinusMarkerAndRunLeadingWhitespace ==
    spc = "done" =>
        LET rest == Drop(Concat(strip_in), strip_prefix)
            n == Min2(LeadingWhitespace(rest),
                      LeftInRunAfter(strip_in, strip_prefix))
        IN  /\ Concat(strip_out) = Drop(rest, n)
            /\ Len(strip_out) = Len(strip_in)
            /\ (rest /= <<>> /\ rest[1] \in Whitespace) => n >= 1

\* C18 witness: the marker was spread over two runs and two whitespace
\* characters after it lay in different runs; one of them was removed
C18_Witness ==
    /\ spc = "done"
    /\ Len(strip_in) = 3
    /\ Len(strip_in[1]) = 2
    /\ strip_prefix = 3
    /\ strip_in[2] = <<FWRPAREN, SPACE>>
    /\ strip_in[3] = <<SPACE, CJK>>
    /\ Concat(strip_out) = <<SPACE, CJK>>

(***************************************************************************)
(* formatter._split_body_paragraphs_on_linebreaks, called twice in a row   *)
(***************************************************************************)
MaxSplitParas == 2
SplitCalls == 2

\* str.rstrip() and str.strip()
RECURSIVE rstrip(_)
rstrip(t) ==
    IF t /= <<>> /\ t[Len(t)] \in Whitespace
    THEN rstrip(SubSeq(t, 1, Len(t) - 1)) ELSE t

strip(t) == lstrip(rstrip(t))

\* str.split("\n")
RECURSIVE SplitNL(_)
SplitNL(t) ==
    IF NL \notin Range(t) THEN <<t>>
    ELSE LET i == CHOOSE k \in 1..Len(t) :
                     t[k] = NL /\ \A j \in 1..(k - 1) : t[j] /= NL
         IN  <<SubSeq(t, 1, i - 1)>> \o SplitNL(SubSeq(t, i + 1, Len(t)))

\* the loop over raw_runs that fills line_parts; a line is kept as the
\* joined text of its parts
RECURSIVE LineParts(_, _)
LineParts(raw_runs, line_parts) ==
    IF raw_runs = <<>> THEN line_parts
    ELSE LET parts == SplitNL(Head(raw_runs))
             joined == [line_parts EXCEPT ![Len(line_parts)] = @ \o parts[1]]
         IN  LineParts(Tail(raw_runs), joined \o Tail(parts))

\* resolved_lines: the stripped text of every line that is not empty
RECURSIVE ResolveLines(_)
ResolveLines(lines) ==
    IF lines = <<>> THEN <<>>
    ELSE IF strip(Head(lines)) = <<>> THEN ResolveLines(Tail(lines))
         ELSE <<strip(Head(lines))>> \o ResolveLines(Tail(lines))

resolved_lines(p) == ResolveLines(LineParts(p.runs, <<(<<>>)>>))

\* mutant: the runs of the split paragraph are not cleared
first_line_runs_not_cleared(raw_runs, first_text) ==
    raw_runs \o <<first_text>>

\* _clear_paragraph_runs(p); p.add_run(first_text)
FirstLineRuns(raw_runs, first_text) == <<first_text>>

\* mutant: every new paragraph is inserted right after the original
prev_stays(prev) == prev

\* prev = new_p: the next line goes after the paragraph just inserted
AdvancePrev(prev) == prev + 1

\* the loop over resolved_lines[1:]: _insert_paragraph_after(prev, ln)
RECURSIVE InsertLines(_, _, _)
InsertLines(doc, prev, news) ==
    IF news = <<>> THEN doc
    ELSE InsertLines(InsertAt(doc, prev + 1, Head(news)), AdvancePrev(prev),
                     Tail(news))

PosOf(doc, id) == CHOOSE i \in 1..Len(doc) : doc[i].id = id

\* the paragraph is passed over: blank, not body, or without a line break
SplitSkips(p) ==
    \/ is_effectively_blank_paragraph(p)
    \/ p.role /= "body"
    \/ NL \notin Range(ParaText(p))
    \/ Len(resolved_lines(p)) <= 1

SplitPara(id, c, role, runs) ==
    [id |-> id, container |-> c, role |-> role, runs |-> runs]

\* run texts of the sampled paragraphs
SplitRuns ==
    {<<<<"a">>>>,
     <<<<"a", NL, "b">>>>,
     <<<<"a", NL>>, <<"b">>>>,
     <<<<"a", NL, NL, SPACE, "b">>>>,
     <<<<"a", NL>>>>,
     <<<<NL>>>>,
     <<<<"a", NL, "b", NL, "c">>>>,
     <<<<"a">>, <<"b", NL, "c">>>>}

\* container, role and runs of the sampled paragraphs
SplitParaKinds ==
    {[container |-> "body", role |-> "body", runs |-> r] : r \in SplitRuns}
    \cup {[container |-> "tc1", role |-> "body", runs |-> <<<<"a", NL, "b">>>>],
          [container |-> "tc1", role |-> "body", runs |-> <<<<"a">>>>],
          [container |-> "body", role |-> "h1", runs |-> <<<<"a", NL, "b">>>>],
          [container |-> "body", role |-> "list_item",
           runs |-> <<<<"a", NL, "b">>>>]}

\* what role_getter answers for a paragraph the splitter created
ChildRoles == {"body", "list_item"}

IdsOf(doc) == [i \in 1..Len(doc) |-> doc[i].id]

InitSplit ==
    /\ NumIdle
    /\ ApplyIdle
    /\ RouterIdle
    /\ StripIdle
    /\ MoreIdle
    /\ \E kinds \in SeqsUpTo(SplitParaKinds, MaxSplitParas) :
          sdoc = [i \in 1..Len(kinds) |->
                     SplitPara(i, kinds[i].container, kinds[i].role,
                               kinds[i].runs)]
    /\ sorig = sdoc
    /\ snapshot = IdsOf(sdoc)
    /\ split_i = 1
    /\ created = 0
    /\ returned = <<>>
    /\ lens = <<>>
    /\ sppc = "loop"

\* one iteration of `for p in list(iter_all_paragraphs(doc))`
SplitStep ==
    /\ sppc = "loop"
    /\ split_i <= Len(snapshot)
    /\ LET pos == PosOf(sdoc, snapshot[split_i])
           p == sdoc[pos]
           lines == resolved_lines(p)
       IN  IF SplitSkips(p)
           THEN UNCHANGED <<sdoc, created>>
           ELSE \E roles \in [1..(Len(lines) - 1) -> ChildRoles] :
                   LET first == [p EXCEPT
                                   !.runs = FirstLineRuns(@, lines[1])]
                       news == [k \in 1..(Len(lines) - 1) |->
                                   SplitPara(Len(sdoc) + k, p.container,
                                             roles[k], <<lines[k + 1]>>)]
                   IN  /\ sdoc' = InsertLines([sdoc EXCEPT ![pos] = first],
                                              pos, news)
                       /\ created' = created + Len(news)
    /\ split_i' = split_i + 1
    /\ UNCHANGED <<sorig, snapshot, returned, lens, sppc>>
    /\ UNCHANGED <<numVars, applyVars, routerVars, stripVars, moreVars>>

\* return created
SplitReturn ==
    /\ sppc = "loop"
    /\ split_i > Len(snapshot)
    /\ returned' = Append(returned, created)
    /\ lens' = Append(lens, Len(sdoc))
    /\ sppc' = IF Len(returned) + 1 < SplitCalls THEN "between" ELSE "done"
    /\ UNCHANGED <<sdoc, sorig, snapshot, split_i, created>>
    /\ UNCHANGED <<numVars, applyVars, routerVars, stripVars, moreVars>>

\* the splitter is called again, immediately, on the same document
SplitAgain ==
    /\ sppc = "between"
    /\ snapshot' = IdsOf(sdoc)
    /\ split_i' = 1
    /\ created' = 0
    /\ sppc' = "loop"
    /\ UNCHANGED <<sdoc, sorig, returned, lens>>
    /\ UNCHANGED <<numVars, applyVars, routerVars, stripVars, moreVars>>

NextSplit == SplitStep \/ SplitReturn \/ SplitAgain

SpecSplit == InitSplit /\ [][NextSplit]_vars

(***************************************************************************)
(* Claims about the splitter                                               *)
(***************************************************************************)
\* the paragraph has a line break in its text and the splitter looks at it
HasBreaksInBody(p) ==
    /\ ~is_effectively_blank_paragraph(p)
    /\ p.role = "body"
    /\ NL \in Range(ParaText(p))

\* container and text of a paragraph
Placed(c, t) == [container |-> c, text |-> t]

\* what stands in the place of p afterwards: one paragraph per line when p is
\* split, p itself otherwise
SegmentOf(p, split) ==
    IF split
    THEN LET lines == resolved_lines(p)
         IN  [k \in 1..Len(lines) |-> Placed(p.container, lines[k])]
    ELSE <<Placed(p.container, ParaText(p))>>

PlacedDoc(doc) ==
    [i \in 1..Len(doc) |-> Placed(doc[i].container, ParaText(doc[i]))]

FirstCallDone == Len(returned) >= 1

\* C19: a second run of the splitter right after the first creates no
\* paragraph, so the paragraph count after two runs is the count after one.
C19_SecondSplitCreatesNothing ==
    \A k \in 2..Len(returned) : returned[k] = 0 /\ lens[k] = lens[1]

C19_Witness ==
    /\ Len(returned) = 2
    /\ returned[1] >= 1
    /\ returned[2] = 0
    /\ \E i \in 1..Len(sorig) :
          HasBreaksInBody(sorig[i]) /\ Len(sorig[i].runs) = 2

IsSplit(p) == HasBreaksInBody(p) /\ Len(resolved_lines(p)) >= 2

CN1 == "cn1"
CN2 == "cn2"
CN10 == "cn10"
CN100 == "cn100"
DI == "di"
ZHANG == "zhang"
JIE == "jie"
TIAO == "tiao"
DUN == "dun"
TU == "tu"
BIAO == "biao"
COLON == ":"
HYPHEN == "-"

\* [cn1-cn10] of RE_SUBTITLE_CN, RE_CAPTION and RE_MULTILINE_SUB
CnNumerals == {CN1, CN2, CN10}
\* [cn1-cn10, hundred, thousand, ten thousand] of RE_CN_ENUM
CnEnumNumerals == CnNumerals \cup {CN100}

\* re.IGNORECASE on one character
Lower(c) == IF c \in UpperChars THEN LowerSeq[IndexOf(UpperSeq, c)] ELSE c

\* the word w (lower case) stands in t at index i, case ignored
WordAt(t, i, w) == \A k \in 1..Len(w) : Lower(CharAt(t, i + k - 1)) = w[k]

\* needle in haystack, for sequences
Infix(needle, hay) ==
    \E i \in 1..(Len(hay) - Len(needle) + 1) :
        SubSeq(hay, i, i + Len(needle) - 1) = needle

\* index of the first character at or after i that [set]* does not consume
RECURSIVE RunEnd(_, _, _)
RunEnd(t, i, set) ==
    IF i <= Len(t) /\ t[i] \in set THEN RunEnd(t, i + 1, set) ELSE i

\* (\.\d+){0,n} from index i: [end, groups matched]
RECURSIVE DotGroups(_, _, _, _)
DotGroups(t, i, n, g) ==
    IF n > 0 /\ CharAt(t, i) = DOT /\ DigitRunEnd(t, i + 1) > i + 1
    THEN DotGroups(t, DigitRunEnd(t, i + 1), n - 1, g + 1)
    ELSE [end |-> i, groups |-> g]

\* RE_MULTILINE_NUM.search: \n\s*\d+(\.\d+)*\s+
MULTILINE_NUM(t) ==
    \E i \in 1..Len(t) :
        /\ t[i] = NL
        /\ LET s == SkipWs(t, i + 1)
               e == DigitRunEnd(t, s)
           IN  /\ e > s
               /\ CharAt(t, DotGroups(t, e, Len(t), 0).end) \in Whitespace

\* RE_MULTILINE_SUB.search: \n\s*FWLPAREN[cn numerals]+FWRPAREN
MULTILINE_SUB(t) ==
    \E i \in 1..Len(t) :
        /\ t[i] = NL
        /\ LET s == SkipWs(t, i + 1)
               e == RunEnd(t, s + 1, CnNumerals)
           IN  CharAt(t, s) = FWLPAREN /\ e > s + 1 /\ CharAt(t, e) = FWRPAREN

looks_like_multiline_numbered_block(t) == MULTILINE_NUM(t) \/ MULTILINE_SUB(t)

ABSTRACT_WORDS == {<<"zhai", "yao">>,
                   <<"a", "b", "s", "t", "r", "a", "c", "t">>}
KEYWORD_WORDS == {<<"guan", "jian", "ci">>, <<"guan", "jian", "zi">>,
                  <<"k", "e", "y", "w", "o", "r", "d">>}
REFERENCE_WORDS == {<<"can", "kao", "wen", "xian">>,
                    <<"r", "e", "f", "e", "r", "e", "n", "c", "e">>,
                    <<"r", "e", "f", "e", "r", "e", "n", "c", "e", "s">>,
                    <<"b", "i", "b", "l", "i", "o", "g", "r", "a", "p", "h",
                      "y">>}
CAPTION_WORDS == {<<TU>>, <<BIAO>>, <<"f", "i", "g", "u", "r", "e">>,
                  <<"f", "i", "g", DOT>>, <<"t", "a", "b", "l", "e">>}

\* RE_ABSTRACT.match: ^\s*(word)\s*[:]?\s*
RE_ABSTRACT(t) == \E w \in ABSTRACT_WORDS : WordAt(t, SkipWs(t, 1), w)

\* RE_KEYWORD.match: ^\s*(word)\s*[:]?\s*
RE_KEYWORD(t) == \E w \in KEYWORD_WORDS : WordAt(t, SkipWs(t, 1), w)

\* RE_REFERENCE.match: ^\s*(word)\s*$
RE_REFERENCE(t) ==
    \E w \in REFERENCE_WORDS :
        LET s == SkipWs(t, 1)
        IN  WordAt(t, s, w) /\ SkipWs(t, s + Len(w)) = Len(t) + 1

\* RE_CAPTION.match: ^\s*(word)\s*[digits and cn numerals]+(-\d+)?
RE_CAPTION(t) ==
    \E w \in CAPTION_WORDS :
        LET s == SkipWs(t, 1)
        IN  /\ WordAt(t, s, w)
            /\ CharAt(t, SkipWs(t, s + Len(w))) \in DigitChars \cup CnNumerals

\* RE_SUBTITLE_CN.match: ^\s*FWLPAREN[cn numerals]+FWRPAREN
RE_SUBTITLE_CN(t) ==
    LET s == SkipWs(t, 1)
        e == RunEnd(t, s + 1, CnNumerals)
    IN  CharAt(t, s) = FWLPAREN /\ e > s + 1 /\ CharAt(t, e) = FWRPAREN

\* t.startswith(DI) and c in t[:12]
StartsWithDi(t, c) ==
    CharAt(t, 1) = DI /\ \E i \in 1..12 : CharAt(t, i) = c

\* RE_CN_ENUM.match: ^\s*[cn numerals]+DUN
RE_CN_ENUM(t) ==
    LET s == SkipWs(t, 1)
        e == RunEnd(t, s, CnEnumNumerals)
    IN  e > s /\ CharAt(t, e) = DUN

\* RE_NUM_DOT.match: ^\s*\d+(\.\d+){0,3}\s+
RE_NUM_DOT(t) ==
    LET s == SkipWs(t, 1)
        e == DigitRunEnd(t, s)
    IN  e > s /\ CharAt(t, DotGroups(t, e, 3, 0).end) \in Whitespace

\* t.split()[0].count("."), for a t that RE_NUM_DOT matches
NumDotDepth(t) ==
    LET s == SkipWs(t, 1)
    IN  DotGroups(t, DigitRunEnd(t, s), 3, 0).groups

HEADING1 == <<"heading", SPACE, "1">>
HEADING2 == <<"heading", SPACE, "2">>
HEADING3 == <<"heading", SPACE, "3">>
FOOTER == <<"footer">>

\* the role a style name decides, None when it decides nothing
StyleRole(style_name) ==
    IF Infix(HEADING1, style_name) THEN "h1"
    ELSE IF Infix(HEADING2, style_name) THEN "h2"
    ELSE IF Infix(HEADING3, style_name) THEN "h3"
    ELSE IF Infix(FOOTER, style_name) THEN "footer"
    ELSE None

\* the text patterns tried after the numPr test
HeadingPatternRole(t) ==
    IF RE_SUBTITLE_CN(t) THEN "h3"
    ELSE IF StartsWithDi(t, ZHANG) THEN "h1"
    ELSE IF StartsWithDi(t, JIE) THEN "h2"
    ELSE IF StartsWithDi(t, TIAO) THEN "h3"
    ELSE IF RE_CN_ENUM(t) THEN "h2"
    ELSE IF RE_NUM_DOT(t) THEN (IF NumDotDepth(t) <= 0 THEN "h2" ELSE "h3")
    ELSE None

\* detect_role from the numPr test on
RoleAfterCaption(p, t) ==
    IF is_list_paragraph(p) THEN "list_item"
    ELSE IF HeadingPatternRole(t) /= None THEN HeadingPatternRole(t)
    ELSE "body"

detect_role(p) ==
    LET text == ParaText(p)
        t == strip(text)
    IN  IF is_effectively_blank_paragraph(p) THEN "blank"
        ELSE IF looks_like_multiline_numbered_block(text) THEN "body"
        ELSE IF StyleRole(p.style) /= None THEN StyleRole(p.style)
        ELSE IF RE_ABSTRACT(t) THEN "abstract"
        ELSE IF RE_KEYWORD(t) THEN "keyword"
        ELSE IF RE_REFERENCE(t) THEN "reference"
        ELSE IF RE_CAPTION(t) THEN "caption"
        ELSE RoleAfterCaption(p, t)

\* sampled paragraph texts
RoleTexts ==
    {<<>>,
     <<SPACE>>,
     <<CJK>>,
     <<FWLPAREN, "1", FWRPAREN, CJK>>,
     <<"1", RPAREN, SPACE, CJK>>,
     <<"1", DOT, SPACE, CJK>>,
     <<"c1", CJK>>,
     <<"a", DOT, SPACE, CJK>>,
     <<"B", DOT, SPACE, CJK>>,
     <<DI, CN1, TIAO, SPACE, CJK>>,
     <<DI, CN1, ZHANG, SPACE, CJK>>,
     <<DI, CN1, JIE, SPACE, CJK>>,
     <<TU, "1", SPACE, CJK>>,
     <<"F", "i", "g", DOT, SPACE, "2", HYPHEN, "1">>,
     <<FWLPAREN, CN1, FWRPAREN, CJK>>,
     <<CN10, CN1, DUN, CJK>>,
     <<"1", SPACE, CJK>>,
     <<"1", DOT, "1", SPACE, CJK>>,
     <<"1", DOT, "1", DOT, "1", DOT, "1", DOT, "1", SPACE, CJK>>,
     <<"zhai", "yao", COLON, CJK>>,
     <<"A", "b", "s", "t", "r", "a", "c", "t">>,
     <<"guan", "jian", "ci", COLON, CJK>>,
     <<"can", "kao", "wen", "xian">>,
     <<"can", "kao", "wen", "xian", CJK>>,
     <<CJK, NL, "1", SPACE, CJK>>,
     <<CJK, NL, FWLPAREN, CN1, FWRPAREN, CJK>>,
     <<CJK, NL, CJK>>,
     <<"1", RPAREN, CJK, NL, "2", RPAREN, CJK>>,
     <<SPACE, FWLPAREN, "1", FWRPAREN, CJK>>}

\* sampled style names, lower case
RoleStyles ==
    {<<"normal">>, HEADING1, HEADING2 \o <<SPACE, "char">>, HEADING3, FOOTER}

NumPrs == {<<>>, <<[ilvl |-> 0, numId |-> 1]>>}

RolePara(style, text, numPr) ==
    [style |-> style, runs |-> IF text = <<>> THEN <<>> ELSE <<text>>,
     numPr |-> numPr]

InitRole ==
    /\ NumIdle
    /\ ApplyIdle
    /\ RouterIdle
    /\ StripIdle
    /\ SplitIdle
    /\ AllocIdle
    /\ RetryIdle
    /\ FmtIdle
    /\ \E style \in RoleStyles, text \in RoleTexts, numPr \in NumPrs :
          dr_p = RolePara(style, text, numPr)
    /\ dr_role = None
    /\ drpc = "call"

\* detect_role(paragraph)
DetectRole ==
    /\ drpc = "call"
    /\ dr_role' = detect_role(dr_p)
    /\ drpc' = "done"
    /\ UNCHANGED dr_p
    /\ UNCHANGED <<numVars, applyVars, routerVars, stripVars, splitVars>>
    /\ UNCHANGED <<allocVars, retryVars, fmtVars>>

NextRole == DetectRole

SpecRole == InitRole /\ [][NextRole]_vars

(***************************************************************************)
(* Claims about the rule classifier                                        *)
(***************************************************************************)
\* the text of the paragraph begins with a marker of one of the six families
BeginsWithListMarker(p) ==
    detect_text_list_prefix(strip(ParaText(p))).fmt \in LIST_FMTS

\* a rule that stands before the list marker families matches the paragraph
EarlierRuleMatches(p) ==
    LET text == ParaText(p)
        t == strip(text)
    IN  \/ is_effectively_blank_paragraph(p)
        \/ looks_like_multiline_numbered_block(text)
        \/ StyleRole(p.style) /= None
        \/ RE_ABSTRACT(t) \/ RE_KEYWORD(t) \/ RE_REFERENCE(t) \/ RE_CAPTION(t)
        \/ is_list_paragraph(p)
        \/ HeadingPatternRole(t) /= None

\* C22: a single-line paragraph whose text begins with a marker of one of the
\* six list marker families and which matches no earlier rule is classified
\* list_item.
C22_ListMarkerGivesListItem ==
    (/\ drpc = "done"
     /\ NL \notin Range(ParaText(dr_p))
     /\ BeginsWithListMarker(dr_p)
     /\ ~EarlierRuleMatches(dr_p)) => dr_role = "list_item"

\* the role of the first rule that matches, in the order blank, multi-line
\* guard, style, abstract, keyword, reference, caption, numbering reference,
\* heading patterns, list marker families, body
FirstMatchRole(p) ==
    LET text == ParaText(p)
        t == strip(text)
    IN  IF is_effectively_blank_paragraph(p) THEN "blank"
        ELSE IF looks_like_multiline_numbered_block(text) THEN "body"
        ELSE IF StyleRole(p.style) /= None THEN StyleRole(p.style)
        ELSE IF RE_ABSTRACT(t) THEN "abstract"
        ELSE IF RE_KEYWORD(t) THEN "keyword"
        ELSE IF RE_REFERENCE(t) THEN "reference"
        ELSE IF RE_CAPTION(t) THEN "caption"
        ELSE IF is_list_paragraph(p) THEN "list_item"
        ELSE IF HeadingPatternRole(t) /= None THEN HeadingPatternRole(t)
        ELSE IF BeginsWithListMarker(p) THEN "list_item"
        ELSE "body"

\* C23: the classifier is total and returns the role of the first matching
\* rule in the fixed order; a paragraph with a numbering reference and an
\* article marker is list_item, one with a caption pattern is caption.
C23_FirstMatchWins ==
    drpc = "done" =>
        /\ dr_role = FirstMatchRole(dr_p)
        /\ (/\ is_list_paragraph(dr_p)
            /\ dr_p.style = <<"normal">>
            /\ ParaText(dr_p) = <<DI, CN1, TIAO, SPACE, CJK>>)
               => dr_role = "list_item"
        /\ (dr_p.style = <<"normal">> /\ RE_CAPTION(ParaText(dr_p)))
               => dr_role = "caption"

(***************************************************************************)
(* Numbering-id allocation in two documents (numbering.py:                 *)
(* create_list_num_id), each document processed by a pipeline of its own   *)
(***************************************************************************)
MaxAllocs == 2

Docs == {"A", "B"}

AllocFmts == {"paren_arabic", "num_dot"}

\* mutant: one counter for all documents
next_free_id_shared(nelems, d) ==
    NextFreeIdOf(UNION {UsedIds(nelems[x]) : x \in DOMAIN nelems})

\* new_id = _next_free_id(nelem), nelem = _numbering_element(doc)
DocNextFreeId(nelems, d) == _next_free_id(nelems[d])

InitAlloc ==
    /\ NumIdle
    /\ ApplyIdle
    /\ RouterIdle
    /\ StripIdle
    /\ SplitIdle
    /\ RoleIdle
    /\ RetryIdle
    /\ FmtIdle
    /\ al_pre \in [Docs -> PreNumberings]
    /\ al_nelem = al_pre
    /\ al_new_id = [d \in Docs |-> 0]
    /\ al_ids = [d \in Docs |-> <<>>]

\* create_list_num_id up to new_id = _next_free_id(nelem)
AllocRead(d) ==
    /\ al_new_id[d] = 0
    /\ Len(al_ids[d]) < MaxAllocs
    /\ al_new_id' = [al_new_id EXCEPT ![d] = DocNextFreeId(al_nelem, d)]
    /\ UNCHANGED <<al_pre, al_nelem, al_ids>>
    /\ UNCHANGED <<numVars, applyVars, routerVars, stripVars, splitVars>>
    /\ UNCHANGED <<roleVars, retryVars, fmtVars>>

\* the rest of create_list_num_id: the definition and the binding are added
\* and new_id is returned
AllocWrite(d) ==
    /\ al_new_id[d] /= 0
    /\ \E fmt \in AllocFmts :
          al_nelem' = [al_nelem EXCEPT ![d] =
              Append(_insert_before_first_num(@,
                         _build_abstractNum(al_new_id[d], fmt, 1)),
                     _build_num(al_new_id[d], al_new_id[d]))]
    /\ al_ids' = [al_ids EXCEPT ![d] = Append(@, al_new_id[d])]
    /\ al_new_id' = [al_new_id EXCEPT ![d] = 0]
    /\ UNCHANGED al_pre
    /\ UNCHANGED <<numVars, applyVars, routerVars, stripVars, splitVars>>
    /\ UNCHANGED <<roleVars, retryVars, fmtVars>>

NextAlloc == \E d \in Docs : AllocRead(d) \/ AllocWrite(d)

SpecAlloc == InitAlloc /\ [][NextAlloc]_vars

\* the ids n calls of create_list_num_id return on a document alone
RECURSIVE AloneIds(_, _)
AloneIds(nelem, n) ==
    IF n = 0 THEN <<>>
    ELSE <<_next_free_id(nelem)>>
             \o AloneIds(create_list_num_id(nelem, "paren_arabic", 1), n - 1)

\* C24: whatever the interleaving of the allocation steps of two documents,
\* the ids allocated in each document are the ids it gets when processed
\* alone.
C24_AllocationIndependentOfOtherDocument ==
    \A d \in Docs : al_ids[d] = AloneIds(al_pre[d], Len(al_ids[d]))

C24_Witness ==
    /\ \A d \in Docs : Len(al_ids[d]) = MaxAllocs
    /\ al_pre["A"] /= <<>>
    /\ al_pre["B"] = <<>>
    /\ al_ids["B"][1] = 1

(***************************************************************************)
(* The classifier call with retry (llm_client.py:                          *)
(* LLMClient._execute_chat_completion)                                     *)
(***************************************************************************)
MaxRetryAttempts == 3

\* LLM_RETRY_BACKOFF_S, in seconds
Backoffs == {0, 1, 3}

\* error_type of the errors that are retried: openai.APITimeoutError (by the
\* exception's cause) and openai.APIConnectionError
TransientErrors == {"connect_timeout", "read_timeout", "timeout",
                    "connect_error"}

\* error_type of the errors that are raised at once:
\* openai.AuthenticationError and any other Exception
FatalErrors == {"auth", "unknown"}

RECURSIVE Pow2(_)
Pow2(n) == IF n = 0 THEN 1 ELSE 2 * Pow2(n - 1)

\* backoff = LLM_RETRY_BACKOFF_S * (2 ** (attempt - 1))
Backoff(base, n) == base * Pow2(n - 1)

\* mutant: the method sleeps after every failed attempt
should_sleep_always(n, attempts) == TRUE

\* if attempt < LLM_RETRY_ATTEMPTS
ShouldSleep(n, attempts) == n < attempts

CallEvent(n, outcome) == [ev |-> "call", n |-> n, outcome |-> outcome, s |-> 0]
SleepEvent(n, secs) == [ev |-> "sleep", n |-> n, outcome |-> None, s |-> secs]

InitRetry ==
    /\ NumIdle
    /\ ApplyIdle
    /\ RouterIdle
    /\ StripIdle
    /\ SplitIdle
    /\ RoleIdle
    /\ AllocIdle
    /\ FmtIdle
    /\ rt_attempts \in 1..MaxRetryAttempts
    /\ rt_backoff \in Backoffs
    /\ attempt = 1
    /\ last_error = None
    /\ rt_log = <<>>
    /\ rt_result = NoResult
    /\ rtpc = "call"

\* self.client.chat.completions.create(**kwargs) returns:
\* return response.choices[0].message.content
CallReturns ==
    /\ rtpc = "call"
    /\ rt_log' = Append(rt_log, CallEvent(attempt, "ok"))
    /\ rt_result' = [kind |-> "returned", error_type |-> None,
                     content |-> "content"]
    /\ rtpc' = "done"
    /\ UNCHANGED <<rt_attempts, rt_backoff, attempt, last_error>>
    /\ UNCHANGED <<numVars, applyVars, routerVars, stripVars, splitVars>>
    /\ UNCHANGED <<roleVars, allocVars, fmtVars>>

\* except openai.APITimeoutError / except openai.APIConnectionError
CallFailsTransient ==
    /\ rtpc = "call"
    /\ \E e \in TransientErrors :
          /\ rt_log' = Append(rt_log, CallEvent(attempt, e))
          /\ last_error' = e
    /\ rtpc' = IF ShouldSleep(attempt, rt_attempts) THEN "sleep" ELSE "next"
    /\ UNCHANGED <<rt_attempts, rt_backoff, attempt, rt_result>>
    /\ UNCHANGED <<numVars, applyVars, routerVars, stripVars, splitVars>>
    /\ UNCHANGED <<roleVars, allocVars, fmtVars>>

\* except openai.AuthenticationError / except Exception: raise LLMCallError
CallFailsFatal ==
    /\ rtpc = "call"
    /\ \E e \in FatalErrors :
          /\ rt_log' = Append(rt_log, CallEvent(attempt, e))
          /\ rt_result' = [kind |-> "raised", error_type |-> e,
                           content |-> None]
    /\ rtpc' = "done"
    /\ UNCHANGED <<rt_attempts, rt_backoff, attempt, last_error>>
    /\ UNCHANGED <<numVars, applyVars, routerVars, stripVars, splitVars>>
    /\ UNCHANGED <<roleVars, allocVars, fmtVars>>

\* time.sleep(backoff)
Sleep ==
    /\ rtpc = "sleep"
    /\ rt_log' = Append(rt_log, SleepEvent(attempt, Backoff(rt_backoff, attempt)))
    /\ rtpc' = "next"
    /\ UNCHANGED <<rt_attempts, rt_backoff, attempt, last_error, rt_result>>
    /\ UNCHANGED <<numVars, applyVars, routerVars, stripVars, splitVars>>
    /\ UNCHANGED <<roleVars, allocVars, fmtVars>>

\* for attempt in range(1, LLM_RETRY_ATTEMPTS + 1): the next attempt
NextAttempt ==
    /\ rtpc = "next"
    /\ attempt < rt_attempts
    /\ attempt' = attempt + 1
    /\ rtpc' = "call"
    /\ UNCHANGED <<rt_attempts, rt_backoff, last_error, rt_log, rt_result>>
    /\ UNCHANGED <<numVars, applyVars, routerVars, stripVars, splitVars>>
    /\ UNCHANGED <<roleVars, allocVars, fmtVars>>

\* the loop is exhausted: raise last_error
RaiseLast ==
    /\ rtpc = "next"
    /\ attempt >= rt_attempts
    /\ rt_result' = [kind |-> "raised", error_type |-> last_error,
                     content |-> None]
    /\ rtpc' = "done"
    /\ UNCHANGED <<rt_attempts, rt_backoff, attempt, last_error, rt_log>>
    /\ UNCHANGED <<numVars, applyVars, routerVars, stripVars, splitVars>>
    /\ UNCHANGED <<roleVars, allocVars, fmtVars>>

NextRetry ==
    \/ CallReturns
    \/ CallFailsTransient
    \/ CallFailsFatal
    \/ Sleep
    \/ NextAttempt
    \/ RaiseLast

SpecRetry == InitRetry /\ [][NextRetry]_vars

\* the method runs in one thread and nothing but the call and the sleep can
\* block: every step that can be taken is taken
SpecRetryFair == SpecRetry /\ WF_vars(NextRetry)

(***************************************************************************)
(* Claims about the classifier call with retry                             *)
(***************************************************************************)
CallsMade == {i \in 1..Len(rt_log) : rt_log[i].ev = "call"}
LastEvent == rt_log[Len(rt_log)]
RetryDone == rtpc = "done"

\* at most LLM_RETRY_ATTEMPTS calls
AtMostAttemptsCalls == Cardinality(CallsMade) <= rt_attempts

\* a sleep of base * 2^(attempt-1) stands between any two consecutive calls,
\* and nowhere else
SleepsOnlyBetweenAttempts ==
    /\ \A i \in 1..Len(rt_log) :
          IF rt_log[i].ev = "sleep"
          THEN /\ i > 1
               /\ rt_log[i - 1].ev = "call"
               /\ rt_log[i - 1].outcome \in TransientErrors
               /\ rt_log[i].s = rt_backoff * Pow2(rt_log[i - 1].n - 1)
               /\ rt_log[i - 1].n < rt_attempts
               /\ i < Len(rt_log) => rt_log[i + 1].ev = "call"
          ELSE i > 1 => rt_log[i - 1].ev = "sleep"
    /\ RetryDone => LastEvent.ev = "call"

\* when every attempt failed with a timeout or connection error, the method
\* raises LLMCallError with the type of the last error
ExhaustedRaisesLastError ==
    (RetryDone /\ LastEvent.outcome \in TransientErrors) =>
        /\ Cardinality(CallsMade) = rt_attempts
        /\ rt_result.kind = "raised"
        /\ rt_result.error_type = LastEvent.outcome

\* a successful call is the last thing the method does
SuccessReturnsAtOnce ==
    \A i \in CallsMade :
        rt_log[i].outcome = "ok" =>
            i = Len(rt_log) /\ RetryDone /\ rt_result.kind = "returned"

\* an authentication error or another error is raised with no call after it
FatalRaisesAtOnce ==
    \A i \in CallsMade :
        rt_log[i].outcome \in FatalErrors =>
            /\ i = Len(rt_log) /\ RetryDone
            /\ rt_result.kind = "raised"
            /\ rt_result.error_type = rt_log[i].outcome

\* C27 as stated, in what a finite run can refute: an authentication error
\* or any other error raises LLMCallError after exactly one call.
C27_FatalErrorAfterExactlyOneCall ==
    (RetryDone /\ rt_result.error_type \in FatalErrors) =>
        Cardinality(CallsMade) = 1

\* C27 (amended): the call with retry always terminates; it makes at most
\* LLM_RETRY_ATTEMPTS calls, sleeps base * 2^(attempt-1) only between
\* consecutive attempts, raises LLMCallError with the last error's type when
\* all attempts failed with timeout or connection errors, returns at the
\* first successful call, and raises at once, with no further call, on an
\* authentication error or any other error.
C27_RetryTerminates ==
    /\ [](/\ AtMostAttemptsCalls
          /\ SleepsOnlyBetweenAttempts
          /\ ExhaustedRaisesLastError
          /\ SuccessReturnsAtOnce
          /\ FatalRaisesAtOnce)
    /\ <>RetryDone

C27_Witness ==
    /\ RetryDone
    /\ rt_attempts = 3
    /\ rt_backoff = 1
    /\ rt_result = [kind |-> "raised", error_type |-> "read_timeout",
                    content |-> None]
    /\ Len(rt_log) = 5
    /\ rt_log[2].s = 1
    /\ rt_log[4].s = 2

(***************************************************************************)
(* Blank-paragraph cleanup (formatter.py: _cleanup_consecutive_blanks,     *)
(* _delete_blanks_after_roles; docx_utils.py: delete_paragraph)            *)
(*   A paragraph of the document tree is a record with a field id, the     *)
(*   identity of its w:p element.                                          *)
(***************************************************************************)
\* the paragraphs of doc without those whose identity is in ids
RemoveParas(doc, ids) == SelectSeq(doc, LAMBDA q : q.id \notin ids)

\* mutant: the run of blanks is carried over a container boundary
parent_changed_never(cur_parent, last_parent) == FALSE

\* if cur_parent is not last_parent
ParentChanged(cur_parent, last_parent) == cur_parent /= last_parent

\* the loop of _cleanup_consecutive_blanks: to_delete
RECURSIVE CleanupScan(_, _, _, _, _, _)
CleanupScan(doc, i, max_keep, blank_run, last_parent, to_delete) ==
    IF i > Len(doc) THEN to_delete
    ELSE LET p == doc[i]
             changed == ParentChanged(p.container, last_parent)
             run0 == IF changed THEN 0 ELSE blank_run
             parent == IF changed THEN p.container ELSE last_parent
         IN  IF is_effectively_blank_paragraph(p)
             THEN CleanupScan(doc, i + 1, max_keep, run0 + 1, parent,
                              IF run0 + 1 > max_keep
                              THEN Append(to_delete, p.id) ELSE to_delete)
             ELSE CleanupScan(doc, i + 1, max_keep, 0, parent, to_delete)

\* _cleanup_consecutive_blanks(doc, max_keep): the document afterwards and
\* the count returned
_cleanup_consecutive_blanks(doc, max_keep) ==
    LET to_delete == CleanupScan(doc, 1, max_keep, 0, None, <<>>)
    IN  [doc |-> RemoveParas(doc, Range(to_delete)),
         deleted |-> Len(to_delete)]

\* the inner while loop of _delete_blanks_after_roles from index j: the
\* blank paragraphs that follow in the same container
RECURSIVE BlanksFrom(_, _, _)
BlanksFrom(doc, j, cur_parent) ==
    IF j > Len(doc) THEN <<>>
    ELSE IF doc[j].container /= cur_parent THEN <<>>
    ELSE IF ~is_effectively_blank_paragraph(doc[j]) THEN <<>>
    ELSE <<doc[j].id>> \o BlanksFrom(doc, j + 1, cur_parent)

\* the outer while loop of _delete_blanks_after_roles: to_delete
RECURSIVE AfterRolesScan(_, _, _, _)
AfterRolesScan(doc, i, roles, roleOf) ==
    IF i > Len(doc) THEN <<>>
    ELSE (IF roleOf[doc[i].id] \in roles
          THEN BlanksFrom(doc, i + 1, doc[i].container) ELSE <<>>)
         \o AfterRolesScan(doc, i + 1, roles, roleOf)

Reverse(s) == [i \in 1..Len(s) |-> s[Len(s) + 1 - i]]

\* for p in reversed(to_delete): delete_paragraph(p).  A paragraph already
\* deleted has _element None, and p.getparent() raises AttributeError.
RECURSIVE DeleteEach(_, _, _)
DeleteEach(doc, ids, gone) ==
    IF ids = <<>> THEN [doc |-> doc, raised |-> FALSE]
    ELSE IF Head(ids) \in gone THEN [doc |-> doc, raised |-> TRUE]
    ELSE DeleteEach(RemoveParas(doc, {Head(ids)}), Tail(ids),
                    gone \cup {Head(ids)})

\* _delete_blanks_after_roles(doc, roles, role_getter): the document
\* afterwards, whether the call raised, and the count returned
_delete_blanks_after_roles(doc, roles, roleOf) ==
    LET to_delete == AfterRolesScan(doc, 1, roles, roleOf)
        outcome == DeleteEach(doc, Reverse(to_delete), {})
    IN  [doc |-> outcome.doc, raised |-> outcome.raised,
         deleted |-> IF outcome.raised THEN None ELSE Len(to_delete)]

\* a paragraph of the document tree
FPara(id, c, style, runs, numPr) ==
    [id |-> id, container |-> c, style |-> style, runs |-> runs,
     numPr |-> numPr]

NORMAL == <<"normal">>

\* a table cell that the flow has left for the body is not entered again
WellNested(kinds) ==
    \A i, j, k \in 1..Len(kinds) :
        (i < j /\ j < k /\ kinds[i].container = kinds[k].container
            /\ kinds[j].container = "body")
        => kinds[i].container = "body"

\* number the paragraphs of a document in flow order
DocOf(kinds) ==
    [i \in 1..Len(kinds) |->
        FPara(i, kinds[i].container, kinds[i].style, kinds[i].runs,
              kinds[i].numPr)]

OtherIdle ==
    /\ NumIdle /\ ApplyIdle /\ RouterIdle /\ StripIdle /\ SplitIdle
    /\ RoleIdle /\ AllocIdle /\ RetryIdle

(***************************************************************************)
(* A direct call of _cleanup_consecutive_blanks                            *)
(***************************************************************************)
MaxBlankParas == 4

MaxKeeps == {0, 1, 2}

BlankKinds ==
    {[container |-> c, style |-> NORMAL, runs |-> r, numPr |-> <<>>] :
        c \in {"body", "tc1"}, r \in {<<>>, <<<<CJK>>>>}}
    \cup {[container |-> "tc2", style |-> NORMAL, runs |-> <<>>,
           numPr |-> <<>>],
          [container |-> "body", style |-> NORMAL, runs |-> <<<<SPACE>>>>,
           numPr |-> <<>>]}

InitBlanks ==
    /\ OtherIdle
    /\ \E kinds \in SeqsUpTo(BlankKinds, MaxBlankParas) :
          WellNested(kinds) /\ fdoc = DocOf(kinds)
    /\ forig = fdoc
    /\ max_blank_keep \in MaxKeeps
    /\ flabels = <<>> /\ label_by_elem = <<>> /\ role_getter = <<>>
    /\ report = <<>> /\ split_from = <<>> /\ fret = None
    /\ fpc = "call"

\* deleted = _cleanup_consecutive_blanks(doc, max_keep)
CleanupCall ==
    /\ fpc = "call"
    /\ LET r == _cleanup_consecutive_blanks(fdoc, max_blank_keep)
       IN  fdoc' = r.doc /\ fret' = r.deleted
    /\ fpc' = "done"
    /\ UNCHANGED <<forig, flabels, label_by_elem, max_blank_keep, role_getter,
                   report, split_from>>
    /\ UNCHANGED <<numVars, applyVars, routerVars, stripVars, splitVars>>
    /\ UNCHANGED <<roleVars, allocVars, retryVars>>

NextBlanks == CleanupCall

SpecBlanks == InitBlanks /\ [][NextBlanks]_vars

\* the place of paragraph i in the run of blank paragraphs of its container
\* that it stands in, 0 for a paragraph that is not blank
RECURSIVE BlankRunPos(_, _)
BlankRunPos(doc, i) ==
    IF ~is_effectively_blank_paragraph(doc[i]) THEN 0
    ELSE IF i > 1 /\ doc[i - 1].container = doc[i].container
         THEN BlankRunPos(doc, i - 1) + 1
         ELSE 1

FIds(doc) == {doc[i].id : i \in 1..Len(doc)}

\* C28: after the cleanup no container holds more than max_keep consecutive
\* blank paragraphs; blanks of different containers are not counted as one
\* run (a blank is deleted only when more than max_keep blanks of its own
\* container stand in a row up to it); no non-blank paragraph is deleted;
\* the returned count is the number of paragraphs deleted.
C28_AtMostMaxKeepBlanksPerContainer ==
    fpc = "done" =>
        /\ \A i \in 1..Len(fdoc) : BlankRunPos(fdoc, i) <= max_blank_keep
        /\ \A i \in 1..Len(forig) :
              forig[i].id \notin FIds(fdoc)
                  => BlankRunPos(forig, i) > max_blank_keep
        /\ fdoc = RemoveParas(forig, FIds(forig) \ FIds(fdoc))
        /\ fret = Len(forig) - Len(fdoc)

C28_Witness ==
    /\ fpc = "done"
    /\ max_blank_keep = 1
    /\ [i \in 1..Len(forig) |-> forig[i].container]
           = <<"tc1", "tc1", "tc1", "tc2">>
    /\ \A i \in 1..Len(forig) : forig[i].runs = <<>>
    /\ fret = 2
    /\ [i \in 1..Len(fdoc) |-> fdoc[i].id] = <<1, 4>>

(***************************************************************************)
(* A direct call of _delete_blanks_after_roles                             *)
(***************************************************************************)
MaxAfterParas == 3

\* cleanup_cfg.get("remove_blank_after_roles", ["h1", "h2", "h3", "caption"])
DefaultRemoveBlankAfterRoles == {"h1", "h2", "h3", "caption"}

AfterKinds ==
    {[container |-> c, style |-> NORMAL, runs |-> r, numPr |-> <<>>] :
        c \in {"body", "tc1"}, r \in {<<>>, <<<<CJK>>>>}}

\* role assignments, blank paragraphs with a target role included
AssignedRoles == {"h1", "caption", "body", "blank"}

InitDeleteAfter ==
    /\ OtherIdle
    /\ \E kinds \in SeqsUpTo(AfterKinds, MaxAfterParas) :
          WellNested(kinds) /\ fdoc = DocOf(kinds)
    /\ forig = fdoc
    /\ role_getter \in [1..Len(fdoc) -> AssignedRoles]
    /\ max_blank_keep = 1
    /\ flabels = <<>> /\ label_by_elem = <<>>
    /\ report = <<>> /\ split_from = <<>> /\ fret = None
    /\ fpc = "call"

\* deleted = _delete_blanks_after_roles(doc, roles, role_getter)
DeleteAfterCall ==
    /\ fpc = "call"
    /\ LET r == _delete_blanks_after_roles(fdoc, DefaultRemoveBlankAfterRoles,
                                           role_getter)
       IN  /\ fdoc' = r.doc
           /\ fret' = r.deleted
           /\ fpc' = IF r.raised THEN "raised" ELSE "done"
    /\ UNCHANGED <<forig, flabels, label_by_elem, max_blank_keep, role_getter,
                   report, split_from>>
    /\ UNCHANGED <<numVars, applyVars, routerVars, stripVars, splitVars>>
    /\ UNCHANGED <<roleVars, allocVars, retryVars>>

NextDeleteAfter == DeleteAfterCall

SpecDeleteAfter == InitDeleteAfter /\ [][NextDeleteAfter]_vars

\* C25: for every document and every role assignment (a blank paragraph may
\* have a target role), deleting the blank paragraphs after the target roles
\* never raises, and the count it returns is the number of paragraphs that
\* were removed from the document.
C25_DeleteAfterRolesNeverRaises ==
    /\ fpc /= "raised"
    /\ fpc = "done" => fret = Len(forig) - Len(fdoc)

(***************************************************************************)
(* apply_formatting                                                        *)
(***************************************************************************)
ROLE_LABELS_FALLBACK_TO_RULE == {"blank", "unknown"}

\* if len(mismatch_examples) < 5
MaxMismatchExamples == 5

\* the loop over blocks that fills label_by_elem; block i (block_id i,
\* paragraph_index i - 1) stands for paragraph i, the key is the paragraph's
\* element
LabelByElem(doc, labels) ==
    [id \in {i \in 1..Len(doc) :
                labels[i] /= None
                    /\ labels[i] \notin ROLE_LABELS_FALLBACK_TO_RULE}
        |-> labels[id]]

\* label_by_elem.get(p._p) or detect_role(p)
get_role(lbe, p) ==
    IF p.id \in DOMAIN lbe THEN lbe[p.id] ELSE detect_role(p)

\* the consistency loop over blocks: compared, mismatch, mismatch_examples
\* (the block ids of the examples)
RECURSIVE ConsistencyScan(_, _, _, _)
ConsistencyScan(doc, labels, i, acc) ==
    IF i > Len(doc) THEN acc
    ELSE LET lab == labels[i]
             det == detect_role(doc[i])
         IN  IF lab = None \/ lab = "blank"
             THEN ConsistencyScan(doc, labels, i + 1, acc)
             ELSE IF det = lab
             THEN ConsistencyScan(doc, labels, i + 1,
                      [acc EXCEPT !.compared = @ + 1])
             ELSE ConsistencyScan(doc, labels, i + 1,
                      [compared |-> acc.compared + 1,
                       mismatched |-> acc.mismatched + 1,
                       examples |->
                           IF Len(acc.examples) < MaxMismatchExamples
                           THEN Append(acc.examples, i)
                           ELSE acc.examples])

\* mutant: a new paragraph gets no entry in label_by_elem
inherit_label_never(lbe, parent, child) == lbe

\* _inherit_label(parent_p, child_p)
_inherit_label(lbe, parent, child) ==
    IF parent \in DOMAIN lbe /\ child \notin DOMAIN lbe
    THEN [id \in DOMAIN lbe \cup {child} |->
             IF id = child THEN lbe[parent] ELSE lbe[id]]
    ELSE lbe

\* on_new_paragraph(p, new_p) for every new paragraph of one split
RECURSIVE InheritAll(_, _, _)
InheritAll(lbe, parent, children) ==
    IF children = <<>> THEN lbe
    ELSE InheritAll(_inherit_label(lbe, parent, Head(children)), parent,
                    Tail(children))

\* mutant: a split is counted as one new paragraph
count_created_once(count, n) == count + 1

\* created += 1 for every inserted paragraph
CountCreated(count, n) == count + n

\* the paragraph is passed over by the splitter under the role function
FmtSplitSkips(lbe, p) ==
    \/ is_effectively_blank_paragraph(p)
    \/ get_role(lbe, p) /= "body"
    \/ NL \notin Range(ParaText(p))
    \/ Len(resolved_lines(p)) <= 1

\* _split_body_paragraphs_on_linebreaks(doc, role_getter=get_role,
\* on_new_paragraph=_inherit_label): the loop over the snapshot
RECURSIVE FmtSplitLoop(_, _, _)
FmtSplitLoop(st, snap, i) ==
    IF i > Len(snap) THEN st
    ELSE LET pos == PosOf(st.doc, snap[i])
             p == st.doc[pos]
             lines == resolved_lines(p)
             first == [p EXCEPT !.runs = FirstLineRuns(@, lines[1])]
             news == [k \in 1..(Len(lines) - 1) |->
                         FPara(st.next + k - 1, p.container, p.style,
                               <<lines[k + 1]>>, <<>>)]
         IN  IF FmtSplitSkips(st.lbe, p)
             THEN FmtSplitLoop(st, snap, i + 1)
             ELSE FmtSplitLoop(
                      [doc |-> InsertLines([st.doc EXCEPT ![pos] = first],
                                           pos, news),
                       lbe |-> InheritAll(st.lbe, p.id, IdsOf(news)),
                       created |-> CountCreated(st.created, Len(news)),
                       next |-> st.next + Len(news),
                       from |-> [id \in DOMAIN st.from \cup Range(IdsOf(news))
                                    |-> IF id \in DOMAIN st.from
                                        THEN st.from[id] ELSE p.id]],
                      snap, i + 1)

\* docx_utils._is_en_char: ch.isascii()
NonAsciiChars ==
    {CJK, FWLPAREN, FWRPAREN, DUN, DI, ZHANG, JIE, TIAO, TU, BIAO}
        \cup EnclosedChars \cup CnEnumNumerals

_is_en_char(ch) == ch \notin NonAsciiChars

\* docx_utils.split_text_by_script: the segments
RECURSIVE split_text_by_script(_)
split_text_by_script(text) ==
    IF text = <<>> THEN <<>>
    ELSE LET same(k) == \A j \in 1..k :
                            _is_en_char(text[j]) = _is_en_char(text[1])
             n == CHOOSE k \in 1..Len(text) :
                      same(k) /\ (k = Len(text) \/ ~same(k + 1))
         IN  <<SubSeq(text, 1, n)>>
                 \o split_text_by_script(SubSeq(text, n + 1, Len(text)))

\* docx_utils.normalize_mixed_runs: the run texts afterwards
RECURSIVE normalize_mixed_runs(_)
normalize_mixed_runs(runs) ==
    IF runs = <<>> THEN <<>>
    ELSE (IF Len(split_text_by_script(Head(runs))) <= 1 THEN <<Head(runs)>>
          ELSE split_text_by_script(Head(runs)))
         \o normalize_mixed_runs(Tail(runs))

\* str.rstrip("\r\n")
RECURSIVE RstripNL(_)
RstripNL(t) ==
    IF t /= <<>> /\ t[Len(t)] = NL THEN RstripNL(SubSeq(t, 1, Len(t) - 1))
    ELSE t

\* _strip_trailing_newlines_in_paragraph(p): the run texts afterwards
_strip_trailing_newlines_in_paragraph(p) ==
    IF RstripNL(ParaText(p)) = ParaText(p) THEN p.runs
    ELSE <<RstripNL(ParaText(p))>>

\* the key of formatted_counter that step 4 counts the paragraph under
FormattedKey(role, p) ==
    IF role = "body" THEN (IF is_list_paragraph(p) THEN "list_body" ELSE "body")
    ELSE IF role \in {"h1", "h2", "h3", "caption", "abstract", "keyword",
                      "reference", "footer", "list_item"} THEN role
    ELSE "unknown_as_body"

\* step 4 on one paragraph: the paragraph afterwards
FormatPara(lbe, p) ==
    IF is_effectively_blank_paragraph(p) THEN p
    ELSE LET role == get_role(lbe, p)
             stripped == IF role \in {"h1", "h2", "h3", "caption"}
                         THEN _strip_trailing_newlines_in_paragraph(p)
                         ELSE p.runs
         IN  [p EXCEPT !.runs = normalize_mixed_runs(stripped)]

\* formatted_counter, as the keys counted in document order
RECURSIVE FormattedKeys(_, _, _)
FormattedKeys(lbe, doc, i) ==
    IF i > Len(doc) THEN <<>>
    ELSE (IF is_effectively_blank_paragraph(doc[i]) THEN <<>>
          ELSE <<FormattedKey(get_role(lbe, doc[i]), doc[i])>>)
         \o FormattedKeys(lbe, doc, i + 1)

MaxFmtParas == 3

\* cleanup.max_consecutive_blank_paragraphs of the format spec
FmtMaxKeeps == {1, 2}

FmtKind(c, runs, numPr, label) ==
    [container |-> c, style |-> NORMAL, runs |-> runs, numPr |-> numPr,
     label |-> label]

\* the sampled paragraphs with the label of their block (None: no entry)
FmtKinds ==
    {FmtKind("body", <<>>, <<>>, "blank"),
     FmtKind("body", <<>>, <<>>, "h1"),
     FmtKind("body", <<<<CJK, NL>>>>, <<>>, "h1"),
     FmtKind("body", <<<<CJK>>>>, <<>>, "body"),
     FmtKind("body",
             <<<<CJK, NL, "1", DOT, SPACE, "a", NL, "2", DOT, SPACE, "b">>>>,
             <<>>, "list_item"),
     FmtKind("body", <<<<"1", DOT, SPACE, "a", NL, "2", DOT, SPACE, "b">>>>,
             <<>>, "list_item"),
     FmtKind("body", <<<<"a", CJK, NL, "b", NL, "c">>>>, <<>>, "body"),
     FmtKind("body", <<<<"1", SPACE, CJK, NL, "2", SPACE, CJK>>>>, <<>>,
             "unknown"),
     FmtKind("body", <<<<CJK, NL, "1", SPACE, CJK>>>>, <<>>, "body"),
     FmtKind("tc1", <<<<"a", NL, "b">>>>, <<>>, None),
     FmtKind("body", <<<<CJK>>>>, <<[ilvl |-> 0, numId |-> 1]>>,
             "list_item")}

InitFmt ==
    /\ OtherIdle
    /\ \E kinds \in SeqsUpTo(FmtKinds, MaxFmtParas) :
          /\ WellNested(kinds)
          /\ fdoc = DocOf(kinds)
          /\ flabels = [i \in 1..Len(kinds) |-> kinds[i].label]
    /\ forig = fdoc
    /\ max_blank_keep \in FmtMaxKeeps
    /\ label_by_elem = <<>>
    /\ role_getter = <<>>
    /\ report = <<>>
    /\ split_from = <<>>
    /\ fret = None
    /\ fpc = "start"

\* label_by_elem, the consistency check and the report skeleton
FmtPrepare ==
    /\ fpc = "start"
    /\ label_by_elem' = LabelByElem(fdoc, flabels)
    /\ LET c == ConsistencyScan(fdoc, flabels, 1,
                    [compared |-> 0, mismatched |-> 0, examples |-> <<>>])
       IN  report' = [paragraphs_before |-> Len(fdoc),
                      compared |-> c.compared,
                      mismatched |-> c.mismatched,
                      mismatch_examples |-> c.examples,
                      deleted_consecutive |-> None,
                      deleted_after_roles |-> None,
                      created_by_split |-> None,
                      formatted |-> None,
                      paragraphs_after |-> None]
    /\ fpc' = "cleanup"
    /\ UNCHANGED <<fdoc, forig, flabels, max_blank_keep, role_getter,
                   split_from, fret>>
    /\ UNCHANGED <<numVars, applyVars, routerVars, stripVars, splitVars>>
    /\ UNCHANGED <<roleVars, allocVars, retryVars>>

\* 1) deleted_consecutive = _cleanup_consecutive_blanks(doc, max_blank_keep)
FmtCleanup ==
    /\ fpc = "cleanup"
    /\ LET r == _cleanup_consecutive_blanks(fdoc, max_blank_keep)
       IN  /\ fdoc' = r.doc
           /\ report' = [report EXCEPT !.deleted_consecutive = r.deleted]
    /\ fpc' = "after_roles"
    /\ UNCHANGED <<forig, flabels, label_by_elem, max_blank_keep, role_getter,
                   split_from, fret>>
    /\ UNCHANGED <<numVars, applyVars, routerVars, stripVars, splitVars>>
    /\ UNCHANGED <<roleVars, allocVars, retryVars>>

\* 2) deleted_after_roles = _delete_blanks_after_roles(doc, roles, get_role);
\* an exception of the call leaves apply_formatting
FmtDeleteAfterRoles ==
    /\ fpc = "after_roles"
    /\ LET roleOf == [id \in FIds(fdoc) |->
                         get_role(label_by_elem, fdoc[PosOf(fdoc, id)])]
           r == _delete_blanks_after_roles(fdoc, DefaultRemoveBlankAfterRoles,
                                           roleOf)
       IN  /\ fdoc' = r.doc
           /\ report' = [report EXCEPT !.deleted_after_roles = r.deleted]
           /\ fpc' = IF r.raised THEN "raised" ELSE "split"
    /\ UNCHANGED <<forig, flabels, label_by_elem, max_blank_keep, role_getter,
                   split_from, fret>>
    /\ UNCHANGED <<numVars, applyVars, routerVars, stripVars, splitVars>>
    /\ UNCHANGED <<roleVars, allocVars, retryVars>>

\* 3) created_by_split = _split_body_paragraphs_on_linebreaks(doc, get_role,
\* _inherit_label)
FmtSplit ==
    /\ fpc = "split"
    /\ LET st == FmtSplitLoop([doc |-> fdoc, lbe |-> label_by_elem,
                               created |-> 0, next |-> Len(forig) + 1,
                               from |-> <<>>],
                              IdsOf(fdoc), 1)
       IN  /\ fdoc' = st.doc
           /\ label_by_elem' = st.lbe
           /\ split_from' = st.from
           /\ report' = [report EXCEPT !.created_by_split = st.created]
    /\ fpc' = "format"
    /\ UNCHANGED <<forig, flabels, max_blank_keep, role_getter, fret>>
    /\ UNCHANGED <<numVars, applyVars, routerVars, stripVars, splitVars>>
    /\ UNCHANGED <<roleVars, allocVars, retryVars>>

\* 4) the formatting loop over iter_all_paragraphs(doc)
FmtFormat ==
    /\ fpc = "format"
    /\ fdoc' = [i \in 1..Len(fdoc) |-> FormatPara(label_by_elem, fdoc[i])]
    /\ report' = [report EXCEPT
                     !.formatted = FormattedKeys(label_by_elem, fdoc, 1)]
    /\ fpc' = "finish"
    /\ UNCHANGED <<forig, flabels, label_by_elem, max_blank_keep, role_getter,
                   split_from, fret>>
    /\ UNCHANGED <<numVars, applyVars, routerVars, stripVars, splitVars>>
    /\ UNCHANGED <<roleVars, allocVars, retryVars>>

\* report["meta"]["paragraphs_after"] = len(all_after); return report
FmtFinish ==
    /\ fpc = "finish"
    /\ report' = [report EXCEPT !.paragraphs_after = Len(fdoc)]
    /\ fret' = "report"
    /\ fpc' = "done"
    /\ UNCHANGED <<fdoc, forig, flabels, label_by_elem, max_blank_keep,
                   role_getter, split_from>>
    /\ UNCHANGED <<numVars, applyVars, routerVars, stripVars, splitVars>>
    /\ UNCHANGED <<roleVars, allocVars, retryVars>>

NextFmt ==
    \/ FmtPrepare
    \/ FmtCleanup
    \/ FmtDeleteAfterRoles
    \/ FmtSplit
    \/ FmtFormat
    \/ FmtFinish

SpecFmt == InitFmt /\ [][NextFmt]_vars

\* the lines of the text that begin with a list marker
MarkedLines(t) ==
    {k \in 1..Len(SplitNL(t)) :
        detect_text_list_prefix(SplitNL(t)[k]).fmt /= None}

\* an unmarked preamble line followed by marked lines
IsPreambleBlock(p) ==
    LET lines == resolved_lines(p)
    IN  /\ Len(lines) >= 2
        /\ detect_text_list_prefix(lines[1]).fmt = None
        /\ \A k \in 2..Len(lines) :
              detect_text_list_prefix(lines[k]).fmt /= None

\* C21: a paragraph labelled list_item whose text is an unmarked preamble
\* line followed by marked lines is, after the pipeline, one paragraph per
\* line: the first holds the preamble, is body and has no numbering binding,
\* every following one is bound to a numbering id, the same for all of them.
C21_PreambleBodyThenNumberedItems ==
    fpc = "done" =>
        \A i \in 1..Len(forig) :
            (flabels[i] = "list_item" /\ IsPreambleBlock(forig[i])) =>
                LET lines == resolved_lines(forig[i])
                    pos == PosOf(fdoc, i)
                IN  /\ ParaText(fdoc[pos]) = lines[1]
                    /\ fdoc[pos].numPr = <<>>
                    /\ get_role(label_by_elem, fdoc[pos]) = "body"
                    /\ pos + Len(lines) - 1 <= Len(fdoc)
                    /\ \A k \in 2..Len(lines) :
                          /\ fdoc[pos + k - 1].numPr /= <<>>
                          /\ fdoc[pos + k - 1].numPr = fdoc[pos + 1].numPr

\* the blocks the consistency check is to compare: labelled, not blank, and
\* without several embedded list markers in the text
Comparable(i) ==
    /\ flabels[i] /= None
    /\ flabels[i] /= "blank"
    /\ Cardinality(MarkedLines(ParaText(forig[i]))) < 2

\* C26: a paragraph whose text before the split holds several embedded list
\* markers is counted neither as compared nor as a mismatch and is not among
\* the mismatch examples, of which at most 5 are reported.
C26_MultiMarkerParagraphsNotCompared ==
    fpc /= "start" =>
        /\ report.compared = Cardinality({i \in 1..Len(forig) : Comparable(i)})
        /\ report.mismatched =
               Cardinality({i \in 1..Len(forig) :
                               Comparable(i)
                                   /\ detect_role(forig[i]) /= flabels[i]})
        /\ \A k \in 1..Len(report.mismatch_examples) :
              Comparable(report.mismatch_examples[k])
        /\ Len(report.mismatch_examples) <= MaxMismatchExamples

\* the original paragraph a paragraph of the document is, or was split from
RootOf(id) == IF id \in DOMAIN split_from THEN split_from[id] ELSE id

HasExplicitLabel(i) ==
    flabels[i] /= None /\ flabels[i] \notin ROLE_LABELS_FALLBACK_TO_RULE

\* what the label function answered for original paragraph i before any
\* mutation
LabelBefore(i) == get_role(LabelByElem(forig, flabels), forig[i])

\* C29 (as stated): after the deletions and the split every paragraph of the
\* document resolves to the label its original paragraph resolved to before
\* the mutations.
C29_EveryParagraphKeepsItsLabel ==
    fpc /= "start" =>
        \A j \in 1..Len(fdoc) :
            get_role(label_by_elem, fdoc[j]) = LabelBefore(RootOf(fdoc[j].id))

\* C29 (amended): every surviving original paragraph that was given an
\* explicit label resolves to that label, and so does every paragraph split
\* from it; a paragraph without an explicit label, or split from one, is
\* resolved by the rule classifier from its current text.
C29_ExplicitLabelsSurviveMutation ==
    fpc /= "start" =>
        \A j \in 1..Len(fdoc) :
            IF HasExplicitLabel(RootOf(fdoc[j].id))
            THEN get_role(label_by_elem, fdoc[j]) = flabels[RootOf(fdoc[j].id)]
            ELSE get_role(label_by_elem, fdoc[j]) = detect_role(fdoc[j])

C29_Witness ==
    /\ fpc = "done"
    /\ Len(fdoc) < Len(forig) + report.created_by_split
    /\ \E j \in 1..Len(fdoc) :
          /\ fdoc[j].id \in DOMAIN split_from
          /\ HasExplicitLabel(RootOf(fdoc[j].id))
          /\ detect_role(fdoc[j]) /= flabels[RootOf(fdoc[j].id)]

\* C30: the reported paragraph count after processing is the count before,
\* minus the paragraphs deleted by the consecutive-blank cleanup, minus the
\* blanks deleted after title roles, plus the paragraphs the splitter created.
C30_ReportAccounting ==
    fpc = "done" =>
        report.paragraphs_after =
            report.paragraphs_before - report.deleted_consecutive
                - report.deleted_after_roles + report.created_by_split

C30_Witness ==
    /\ fpc = "done"
    /\ report.deleted_after_roles > 0
    /\ report.created_by_split > 1
    /\ report.paragraphs_after /= report.paragraphs_before

====
